---- MODULE Spec2Model ----
(***************************************************************************)
(* web-druid: the UF2 generation algorithm of src/druid.js (parseUf2,      *)
(* deriveScriptName, buildUserFlashImage, createUf2Block,                  *)
(* makeUserScriptUf2Blocks, inUserRange, filterOutUserRegion,              *)
(* serializeAndRenumber, injectScriptIntoBaseUf2) as a state machine.      *)
(*                                                                         *)
(* Byte buffers (Uint8Array) are sequences of 0..255; the byte at JS       *)
(* offset k is element k+1.  A 32-bit unsigned word (what getUint32        *)
(* returns) is the pair <<hi, lo>> of its two 16-bit halves, because       *)
(* TLC's integers are 32-bit signed and 0xe48bff56 does not fit.           *)
(* A JS string is the sequence of its UTF-16 code units.                   *)
(* The two buffers that grow with the number of blocks, baseUf2Bytes and   *)
(* the returned buffer, are kept in the state as sequences of 512-byte      *)
(* pages; baseUf2Bytes and out name the byte sequences themselves.          *)
(***************************************************************************)
EXTENDS Integers, Sequences, FiniteSets, TLC

VARIABLES
    pc,               \* position inside injectScriptIntoBaseUf2
    basePages,        \* argument baseUf2Bytes, held as its 512-byte pages
    scriptText,       \* argument: the script, UTF-16 code units
    scriptUtf8,       \* const scriptUtf8
    name,             \* const name
    image16k,         \* const image16k
    scriptBlocks512,  \* const scriptBlocks512
    parsed,           \* the value of parseUf2(baseUf2Bytes)
    baseBlocks,       \* const baseBlocks
    baseBlocks512,    \* const baseBlocks512
    outPages,         \* the returned Uint8Array, held as its 512-byte pages
    err,              \* the thrown Error, [kind |-> "none"] when nothing was thrown
    buffers,          \* the ArrayBuffers the callers of two invocations hold
    calls,            \* the locals of two invocations whose steps interleave
    \* CrowConnection
    port,             \* this.port: "null" or the SerialPort
    reader,           \* this.reader: "null" or the reader of the decoded stream
    writer,           \* this.writer: "null", the writer of the encoded stream, or
                      \* that writer after its stream has failed
    isConnected,      \* this.isConnected
    lineBuffer,       \* this.lineBuffer, a string as the sequence of its characters
    readLoop,         \* position of startReading(): "none" or "awaiting read"
    closing,          \* position of disconnect(): "none" or "awaiting"
    connects,         \* how many times connect() has succeeded
    incoming,         \* the text the device has yet to send on this connection
    streamText,       \* the text read from the reader on this connection so far
    delivered,        \* the arguments of onDataReceived on this connection so far
    \* DruidApp
    editorValue,      \* this.editor.getValue(), the script in the editor
    scriptModified,   \* this.scriptModified
    frames,           \* the calls of the async functions that write to crow
    wire,             \* the strings writer.write() has accepted, in order
    commandHistory,   \* this.commandHistory
    historyIndex,     \* this.historyIndex
    currentInput,     \* this.currentInput
    replEditorValue,  \* this.replEditor.getValue(), the Monaco REPL input
    replInputValue,   \* this.elements.replInput.value, the textarea REPL input
    replAutocompleteEnabled,  \* this.replAutocompleteEnabled
    presses           \* the run of ArrowUp and ArrowDown presses under way

\* the state of one invocation of injectScriptIntoBaseUf2
uf2Vars == <<pc, basePages, scriptText, scriptUtf8, name, image16k,
             scriptBlocks512, parsed, baseBlocks, baseBlocks512, outPages, err>>

\* the state of two invocations running side by side
pairVars == <<buffers, calls>>

\* the state of the CrowConnection, of the device's stream and of the
\* onDataReceived callback
connVars == <<port, reader, writer, isConnected, lineBuffer, readLoop, closing,
              connects, incoming, streamText, delivered>>

\* the state of the DruidApp: the fields, the calls under way and what has
\* been written to the port
appVars == <<editorValue, scriptModified, frames, wire, commandHistory,
             historyIndex, currentInput, replEditorValue, replInputValue,
             replAutocompleteEnabled, presses>>

\* what a single invocation never touches
notUf2Vars == <<pairVars, connVars, appVars>>

\* what two invocations never touch
notPairVars == <<uf2Vars, connVars, appVars>>

\* what the CrowConnection never touches
notConnVars == <<uf2Vars, pairVars, appVars>>

\* what the DruidApp never touches
notAppVars == <<uf2Vars, pairVars>>

vars == <<uf2Vars, pairVars, connVars, appVars>>

-----------------------------------------------------------------------------
(* Bounds of the model *)

\* longest base image, in 512-byte blocks
MaxBaseBlocks == 2

-----------------------------------------------------------------------------
(* Program constants *)

UF2_BLOCK_SIZE == 512
UF2_MAX_PAYLOAD == 476
UF2_PAYLOAD_OFFSET == 32
USER_FLASH_START == \h101FC000
USER_FLASH_END == \h101FFFFF
USER_FLASH_SIZE == 16 * 1024
USER_BLOCK_SIZE == 256
STATUS_WORD_SIZE == 4
NAME_FIELD_SIZE == 32
MAX_SCRIPT_LEN == USER_FLASH_SIZE - 4 - 32
MAX_NAME_BYTES == 31
SCRIPT_PRESENT_MAGIC == 10
DEFAULT_VERSION_WORD == \h040
FAMILY_FLAG == \h2000

UF2_MAGIC_START0 == <<\h0A32, \h4655>>
UF2_MAGIC_START1 == <<\h9E5D, \h5157>>
UF2_MAGIC_END == <<\h0AB1, \h6F30>>
RP2040_FAMILY_ID == <<\hE48B, \hFF56>>

-----------------------------------------------------------------------------
(* 32-bit words and DataView accessors *)

Pow2(k) == 2 ^ k

\* a non-negative number below 2^31 as a word
ToU32(n) == <<n \div 65536, n % 65536>>

U32Lt(a, b) == a[1] < b[1] \/ (a[1] = b[1] /\ a[2] < b[2])
U32Le(a, b) == a = b \/ U32Lt(a, b)

\* bitwise AND and OR of two naturals below 2^bits
RECURSIVE BitAnd(_, _, _)
BitAnd(a, b, bits) ==
    IF bits = 0 THEN 0
    ELSE (IF a % 2 = 1 /\ b % 2 = 1 THEN 1 ELSE 0)
         + 2 * BitAnd(a \div 2, b \div 2, bits - 1)

RECURSIVE BitOr(_, _, _)
BitOr(a, b, bits) ==
    IF bits = 0 THEN 0
    ELSE (IF a % 2 = 1 \/ b % 2 = 1 THEN 1 ELSE 0)
         + 2 * BitOr(a \div 2, b \div 2, bits - 1)

U32And(a, b) == <<BitAnd(a[1], b[1], 16), BitAnd(a[2], b[2], 16)>>
U32Or(a, b) == <<BitOr(a[1], b[1], 16), BitOr(a[2], b[2], 16)>>

\* w << k on 32 bits, 0 <= k <= 31: bits shifted past bit 31 are lost
U32Shl(w, k) ==
    IF k >= 16
    THEN <<(w[2] * Pow2(k - 16)) % 65536, 0>>
    ELSE <<(w[1] * Pow2(k) + (w[2] \div Pow2(16 - k))) % 65536,
           (w[2] * Pow2(k)) % 65536>>

\* w >>> k, 0 <= k <= 31
U32Shr(w, k) ==
    IF k >= 16
    THEN <<0, w[1] \div Pow2(k - 16)>>
    ELSE <<w[1] \div Pow2(k),
           ((w[1] % Pow2(k)) * Pow2(16 - k)) + (w[2] \div Pow2(k))>>

\* a word below 2^31 as a number
U32ToInt(w) == w[1] * 65536 + w[2]

\* dv.getUint32(off, true): little-endian
getUint32(bytes, off) ==
    <<bytes[off + 4] * 256 + bytes[off + 3], bytes[off + 2] * 256 + bytes[off + 1]>>

\* the four bytes dv.setUint32(off, w, true) stores
U32Bytes(w) == <<w[2] % 256, w[2] \div 256, w[1] % 256, w[1] \div 256>>

\* dv.setUint32(off, w, true)
setUint32(bytes, off, w) ==
    SubSeq(bytes, 1, off) \o U32Bytes(w) \o SubSeq(bytes, off + 5, Len(bytes))

\* Uint8Array.prototype.slice(from, to): the end is clamped to the length
Slice(bytes, from, to) ==
    SubSeq(bytes, from + 1, IF to > Len(bytes) THEN Len(bytes) ELSE to)

\* target.set(src, off) for a source that fits
SetBytes(bytes, src, off) ==
    SubSeq(bytes, 1, off) \o src \o SubSeq(bytes, off + Len(src) + 1, Len(bytes))

\* new Uint8Array(n), and new Uint8Array(n).fill(c)
RECURSIVE Filled(_, _)
Filled(n, c) ==
    IF n = 0 THEN <<>>
    ELSE IF n = 1 THEN <<c>>
    ELSE LET half == Filled(n \div 2, c)
         IN IF n % 2 = 0 THEN half \o half ELSE half \o half \o <<c>>

-----------------------------------------------------------------------------
(* Text: new TextEncoder().encode, String.prototype.split/startsWith/slice/trim *)

IsHighSurrogate(c) == c >= \hD800 /\ c <= \hDBFF
IsLowSurrogate(c) == c >= \hDC00 /\ c <= \hDFFF

\* UTF-8 of one code point below 0x10000 that is not a surrogate
Utf8Bmp(c) ==
    IF c < \h80 THEN <<c>>
    ELSE IF c < \h800 THEN <<\hC0 + (c \div 64), \h80 + (c % 64)>>
    ELSE <<\hE0 + (c \div 4096), \h80 + ((c \div 64) % 64), \h80 + (c % 64)>>

\* UTF-8 of the code point a surrogate pair stands for
Utf8Pair(h, l) ==
    LET cp == \h10000 + (h - \hD800) * 1024 + (l - \hDC00)
    IN <<\hF0 + (cp \div 262144), \h80 + ((cp \div 4096) % 64),
         \h80 + ((cp \div 64) % 64), \h80 + (cp % 64)>>

\* new TextEncoder().encode(s): a lone surrogate becomes U+FFFD (EF BF BD).
\* The string is encoded by halves, never cutting a surrogate pair.
RECURSIVE Utf8Encode(_)
Utf8Encode(s) ==
    IF Len(s) = 0 THEN <<>>
    ELSE IF Len(s) = 1
    THEN (IF IsHighSurrogate(s[1]) \/ IsLowSurrogate(s[1])
          THEN <<\hEF, \hBF, \hBD>> ELSE Utf8Bmp(s[1]))
    ELSE IF Len(s) = 2 /\ IsHighSurrogate(s[1]) /\ IsLowSurrogate(s[2])
    THEN Utf8Pair(s[1], s[2])
    ELSE LET h == Len(s) \div 2
             m == IF IsHighSurrogate(s[h]) /\ IsLowSurrogate(s[h + 1])
                  THEN h + 1 ELSE h
         IN Utf8Encode(SubSeq(s, 1, m)) \o Utf8Encode(SubSeq(s, m + 1, Len(s)))

\* WhiteSpace and LineTerminator code units, what String.prototype.trim strips
IsTrimmed(c) ==
    \/ c \in {9, 10, 11, 12, 13, 32, \hA0, \h1680, \h2028, \h2029, \h202F,
              \h205F, \h3000, \hFEFF}
    \/ (c >= \h2000 /\ c <= \h200A)

\* s.trim()
Trim(s) ==
    LET keep == {i \in 1..Len(s) : ~IsTrimmed(s[i])}
    IN IF keep = {} THEN <<>>
       ELSE SubSeq(s, CHOOSE i \in keep : \A j \in keep : i <= j,
                      CHOOSE i \in keep : \A j \in keep : i >= j)

\* scriptText.split(/\r?\n/, 1)[0] ?? ""
FirstLine(s) ==
    LET nl == {i \in 1..Len(s) : s[i] = 10}
    IN IF nl = {} THEN s
       ELSE LET j == CHOOSE i \in nl : \A k \in nl : i <= k
                start == IF j > 1 /\ s[j - 1] = 13 THEN j - 1 ELSE j
            IN SubSeq(s, 1, start - 1)

\* firstLine.startsWith("---")
StartsWithMarker(s) == Len(s) >= 3 /\ s[1] = 45 /\ s[2] = 45 /\ s[3] = 45

\* deriveScriptName without the trim()
deriveScriptNameUntrimmed(text) ==
    LET firstLine == FirstLine(text)
    IN IF ~StartsWithMarker(firstLine) THEN <<>>
       ELSE SubSeq(firstLine, 4, Len(firstLine))

deriveScriptName(text) ==
    LET firstLine == FirstLine(text)
    IN IF ~StartsWithMarker(firstLine) THEN <<>>
       ELSE Trim(SubSeq(firstLine, 4, Len(firstLine)))

-----------------------------------------------------------------------------
(* Errors: what the thrown Error says *)

NoError == [kind |-> "none", at |-> 0]
ErrLength == [kind |-> "length not multiple of 512", at |-> 0]
ErrBadMagic(off) == [kind |-> "bad magic", at |-> off]
ErrPayloadSize(payloadSize) == [kind |-> "invalid payloadSize", at |-> payloadSize]
ErrScriptTooLarge(len) == [kind |-> "script too large", at |-> len]
ErrPayload256 == [kind |-> "payload must be 256 bytes", at |-> 0]
ErrExpected16k == [kind |-> "expected 16KB image", at |-> 0]

-----------------------------------------------------------------------------
(* buildUserFlashImage *)

\* PackStatusWord with the length masked to 12 bits
PackStatusWordNarrow(magic, versionWord, len) ==
    U32Or(U32Or(ToU32(magic),
                U32Shl(U32And(ToU32(versionWord), ToU32(\h0FFF)), 4)),
          U32Shl(U32And(ToU32(len), ToU32(\h0FFF)), 16))

\* magic | ((versionWord & 0x0fff) << 4) | ((len & 0xffff) << 16), then >>> 0
PackStatusWord(magic, versionWord, len) ==
    U32Or(U32Or(ToU32(magic),
                U32Shl(U32And(ToU32(versionWord), ToU32(\h0FFF)), 4)),
          U32Shl(U32And(ToU32(len), ToU32(\hFFFF)), 16))

\* the firmware's reading of the status word: bits 0..3, 4..15, 16..31
StatusMagic(w) == U32ToInt(U32And(w, ToU32(\h0F)))
StatusVersion(w) == U32ToInt(U32And(U32Shr(w, 4), ToU32(\h0FFF)))
StatusLength(w) == U32ToInt(U32Shr(w, 16))

\* ScriptTooLarge, refusing a script of exactly MAX_SCRIPT_LEN bytes
ScriptTooLargeAtLimit(utf8) == Len(utf8) >= MAX_SCRIPT_LEN

\* scriptUtf8.length > MAX_SCRIPT_LEN
ScriptTooLarge(utf8) == Len(utf8) > MAX_SCRIPT_LEN

\* NameLength, filling the whole 32-byte field
NameLengthWholeField(nameBytes) ==
    IF Len(nameBytes) < NAME_FIELD_SIZE THEN Len(nameBytes) ELSE NAME_FIELD_SIZE

\* Math.min(nameBytes.length, 31)
NameLength(nameBytes) ==
    IF Len(nameBytes) < MAX_NAME_BYTES THEN Len(nameBytes) ELSE MAX_NAME_BYTES

\* the result: [err, image]; image is <<>> when the call throws
buildUserFlashImage(utf8, nm, versionWord) ==
    IF ScriptTooLarge(utf8)
    THEN [err |-> ErrScriptTooLarge(Len(utf8)), image |-> <<>>]
    ELSE LET filled == Filled(USER_FLASH_SIZE, \hFF)
             statusWord == PackStatusWord(SCRIPT_PRESENT_MAGIC, versionWord, Len(utf8))
             withStatus == setUint32(filled, 0, statusWord)
             nameBytes == Utf8Encode(nm)
             n == NameLength(nameBytes)
             withName == SetBytes(withStatus, Slice(nameBytes, 0, n), STATUS_WORD_SIZE)
             withNul == SetBytes(withName, <<0>>, STATUS_WORD_SIZE + n)
         IN [err |-> NoError,
             image |-> SetBytes(withNul, utf8, STATUS_WORD_SIZE + NAME_FIELD_SIZE)]

-----------------------------------------------------------------------------
(* parseUf2 *)

\* BadMagic without the check of the trailing magic
BadMagicNoTrailer(fileBytes, off) ==
    \/ getUint32(fileBytes, off + 0) # UF2_MAGIC_START0
    \/ getUint32(fileBytes, off + 4) # UF2_MAGIC_START1

\* magic0 !== 0x0a324655 || magic1 !== 0x9e5d5157 || magicEnd !== 0x0ab16f30
BadMagic(fileBytes, off) ==
    \/ getUint32(fileBytes, off + 0) # UF2_MAGIC_START0
    \/ getUint32(fileBytes, off + 4) # UF2_MAGIC_START1
    \/ getUint32(fileBytes, off + UF2_BLOCK_SIZE - 4) # UF2_MAGIC_END

\* PayloadOverflow, letting 477 through
PayloadOverflowLax(fileBytes, off) ==
    U32Lt(ToU32(UF2_MAX_PAYLOAD + 1), getUint32(fileBytes, off + 16))

\* payloadSize > 476
PayloadOverflow(fileBytes, off) ==
    U32Lt(ToU32(UF2_MAX_PAYLOAD), getUint32(fileBytes, off + 16))

\* the familyId field of the pushed Uf2Block
ParsedFamilyId(fileBytes, off) == getUint32(fileBytes, off + 28)

\* ParseBlock with the offsets of blockNo and numBlocks exchanged
ParseBlockSwapped(fileBytes, off) ==
    LET payloadSize == getUint32(fileBytes, off + 16)
    IN [magicStart0 |-> getUint32(fileBytes, off + 0),
        magicStart1 |-> getUint32(fileBytes, off + 4),
        flags |-> getUint32(fileBytes, off + 8),
        targetAddr |-> getUint32(fileBytes, off + 12),
        payloadSize |-> payloadSize,
        blockNo |-> getUint32(fileBytes, off + 24),
        numBlocks |-> getUint32(fileBytes, off + 20),
        familyId |-> ParsedFamilyId(fileBytes, off),
        payload |-> Slice(fileBytes, off + UF2_PAYLOAD_OFFSET,
                          off + UF2_PAYLOAD_OFFSET + U32ToInt(payloadSize))]

\* the Uf2Block pushed for the slice at off
ParseBlock(fileBytes, off) ==
    LET payloadSize == getUint32(fileBytes, off + 16)
    IN [magicStart0 |-> getUint32(fileBytes, off + 0),
        magicStart1 |-> getUint32(fileBytes, off + 4),
        flags |-> getUint32(fileBytes, off + 8),
        targetAddr |-> getUint32(fileBytes, off + 12),
        payloadSize |-> payloadSize,
        blockNo |-> getUint32(fileBytes, off + 20),
        numBlocks |-> getUint32(fileBytes, off + 24),
        familyId |-> ParsedFamilyId(fileBytes, off),
        payload |-> Slice(fileBytes, off + UF2_PAYLOAD_OFFSET,
                          off + UF2_PAYLOAD_OFFSET + U32ToInt(payloadSize))]

\* what the loop body throws for the slice at off
BlockError(fileBytes, off) ==
    IF BadMagic(fileBytes, off) THEN ErrBadMagic(off)
    ELSE IF PayloadOverflow(fileBytes, off)
    THEN ErrPayloadSize(getUint32(fileBytes, off + 16))
    ELSE NoError

\* the first offset, in loop order, whose slice throws
FirstBadOffset(fileBytes, offs) ==
    CHOOSE off \in offs :
        /\ BlockError(fileBytes, off).kind # "none"
        /\ \A o \in offs : o < off => BlockError(fileBytes, o).kind = "none"

\* fileBytes.length % 512 !== 0
Misaligned(fileBytes) == Len(fileBytes) % UF2_BLOCK_SIZE # 0

\* the loop of parseUf2: [err, blocks]
ParseLoop(fileBytes) ==
    LET n == Len(fileBytes) \div UF2_BLOCK_SIZE
        offs == {UF2_BLOCK_SIZE * i : i \in 0..(n - 1)}
    IN IF \E off \in offs : BlockError(fileBytes, off).kind # "none"
       THEN [err |-> BlockError(fileBytes, FirstBadOffset(fileBytes, offs)),
             blocks |-> <<>>]
       ELSE [err |-> NoError,
             blocks |-> [i \in 1..n |->
                            ParseBlock(fileBytes, UF2_BLOCK_SIZE * (i - 1))]]

\* parseUf2 with the length checked after the loop
parseUf2LengthLast(fileBytes) ==
    IF ParseLoop(fileBytes).err.kind # "none" THEN ParseLoop(fileBytes)
    ELSE IF Misaligned(fileBytes) THEN [err |-> ErrLength, blocks |-> <<>>]
    ELSE ParseLoop(fileBytes)

\* the result: [err, blocks]; blocks is <<>> when the call throws
parseUf2(fileBytes) ==
    IF Misaligned(fileBytes) THEN [err |-> ErrLength, blocks |-> <<>>]
    ELSE ParseLoop(fileBytes)

-----------------------------------------------------------------------------
(* createUf2Block, makeUserScriptUf2Blocks *)

U32Zero == <<0, 0>>

\* createUf2Block with the payload set one byte late, at offset 33
createUf2BlockPayloadLate(targetAddr, payload) ==
    IF Len(payload) # USER_BLOCK_SIZE THEN [err |-> ErrPayload256, block |-> <<>>]
    ELSE LET header == U32Bytes(UF2_MAGIC_START0) \o U32Bytes(UF2_MAGIC_START1)
                       \o U32Bytes(ToU32(FAMILY_FLAG)) \o U32Bytes(ToU32(targetAddr))
                       \o U32Bytes(ToU32(USER_BLOCK_SIZE))
                       \o U32Bytes(U32Zero) \o U32Bytes(U32Zero)
                       \o U32Bytes(RP2040_FAMILY_ID)
             trailer == U32Bytes(UF2_MAGIC_END)
             block == Filled(UF2_BLOCK_SIZE, 0)
         IN [err |-> NoError,
             block |-> SetBytes(SetBytes(SetBytes(block, header, 0),
                                         payload, UF2_PAYLOAD_OFFSET + 1),
                                trailer, UF2_BLOCK_SIZE - 4)]

\* the result: [err, block]
createUf2Block(targetAddr, payload) ==
    IF Len(payload) # USER_BLOCK_SIZE THEN [err |-> ErrPayload256, block |-> <<>>]
    ELSE LET header == U32Bytes(UF2_MAGIC_START0) \o U32Bytes(UF2_MAGIC_START1)
                       \o U32Bytes(ToU32(FAMILY_FLAG)) \o U32Bytes(ToU32(targetAddr))
                       \o U32Bytes(ToU32(USER_BLOCK_SIZE))
                       \o U32Bytes(U32Zero) \o U32Bytes(U32Zero)
                       \o U32Bytes(RP2040_FAMILY_ID)
             trailer == U32Bytes(UF2_MAGIC_END)
             block == Filled(UF2_BLOCK_SIZE, 0)
         IN [err |-> NoError,
             block |-> SetBytes(SetBytes(SetBytes(block, header, 0),
                                         payload, UF2_PAYLOAD_OFFSET),
                                trailer, UF2_BLOCK_SIZE - 4)]

\* makeUserScriptUf2Blocks with the addresses at the stride of a whole UF2 block
makeUserScriptUf2BlocksStride512(userFlashImage16k) ==
    IF Len(userFlashImage16k) # USER_FLASH_SIZE
    THEN [err |-> ErrExpected16k, blocks |-> <<>>]
    ELSE [err |-> NoError,
          blocks |-> [i \in 1..(USER_FLASH_SIZE \div USER_BLOCK_SIZE) |->
              createUf2Block(USER_FLASH_START + (i - 1) * UF2_BLOCK_SIZE,
                             Slice(userFlashImage16k, (i - 1) * 256,
                                   (i - 1) * 256 + 256)).block]]

\* makeUserScriptUf2Blocks for an image of any whole number of 256-byte slices
makeUserScriptUf2BlocksAnyMultiple(userFlashImage16k) ==
    IF Len(userFlashImage16k) % USER_BLOCK_SIZE # 0
    THEN [err |-> ErrExpected16k, blocks |-> <<>>]
    ELSE [err |-> NoError,
          blocks |-> [i \in 1..(Len(userFlashImage16k) \div USER_BLOCK_SIZE) |->
              createUf2Block(USER_FLASH_START + (i - 1) * 256,
                             Slice(userFlashImage16k, (i - 1) * 256,
                                   (i - 1) * 256 + 256)).block]]

\* the result: [err, blocks]; a throw of createUf2Block ends the loop
makeUserScriptUf2Blocks(userFlashImage16k) ==
    IF Len(userFlashImage16k) # USER_FLASH_SIZE
    THEN [err |-> ErrExpected16k, blocks |-> <<>>]
    ELSE LET count == USER_FLASH_SIZE \div USER_BLOCK_SIZE
             made == [i \in 1..count |->
                 createUf2Block(USER_FLASH_START + (i - 1) * 256,
                                Slice(userFlashImage16k, (i - 1) * 256,
                                      (i - 1) * 256 + 256))]
             thrown == {i \in 1..count : made[i].err.kind # "none"}
         IN IF thrown # {}
            THEN [err |-> made[CHOOSE i \in thrown : \A j \in thrown : i <= j].err,
                  blocks |-> <<>>]
            ELSE [err |-> NoError, blocks |-> [i \in 1..count |-> made[i].block]]

-----------------------------------------------------------------------------
(* inUserRange, filterOutUserRegion, serializeAndRenumber *)

\* inUserRange with the last address of the region left out
inUserRangeOpenEnd(addr) ==
    U32Le(ToU32(USER_FLASH_START), addr) /\ U32Lt(addr, ToU32(USER_FLASH_END))

\* addr >= 0x101fc000 && addr <= 0x101fffff
inUserRange(addr) ==
    U32Le(ToU32(USER_FLASH_START), addr) /\ U32Le(addr, ToU32(USER_FLASH_END))

\* the elements of s at the positions lo..hi that are in keep, by halves
RECURSIVE KeepBetween(_, _, _, _)
KeepBetween(s, keep, lo, hi) ==
    IF lo > hi THEN <<>>
    ELSE IF lo = hi THEN (IF lo \in keep THEN <<s[lo]>> ELSE <<>>)
    ELSE LET mid == (lo + hi) \div 2
         IN KeepBetween(s, keep, lo, mid) \o KeepBetween(s, keep, mid + 1, hi)

\* s.filter(keep), for a predicate on the elements' positions
KeepPositions(s, keep, i) == KeepBetween(s, keep, i, Len(s))

\* filterOutUserRegion numbering the blocks it keeps
filterOutUserRegionRenumbering(blocks) ==
    LET kept == KeepPositions(blocks, {i \in 1..Len(blocks) :
                                         ~inUserRange(blocks[i].targetAddr)}, 1)
    IN [i \in 1..Len(kept) |->
           [kept[i] EXCEPT !.blockNo = ToU32(i - 1), !.numBlocks = ToU32(Len(kept))]]

filterOutUserRegion(blocks) ==
    KeepPositions(blocks, {i \in 1..Len(blocks) : ~inUserRange(blocks[i].targetAddr)}, 1)

\* Renumbered, numbering the blocks from 1
RenumberedFromOne(allBlocks512) ==
    LET total == Len(allBlocks512)
    IN [i \in 1..total |->
           setUint32(setUint32(allBlocks512[i], 20, ToU32(i)), 24, ToU32(total))]

\* the blocks after the loop's setUint32(20, i) and setUint32(24, total):
\* the DataView writes through to each block's own buffer
Renumbered(allBlocks512) ==
    LET total == Len(allBlocks512)
    IN [i \in 1..total |->
           setUint32(setUint32(allBlocks512[i], 20, ToU32(i - 1)), 24, ToU32(total))]

\* the concatenation of byte buffers
RECURSIVE Concat(_)
Concat(bufs) ==
    IF Len(bufs) = 0 THEN <<>>
    ELSE IF Len(bufs) = 1 THEN bufs[1]
    ELSE LET h == Len(bufs) \div 2
         IN Concat(SubSeq(bufs, 1, h)) \o Concat(SubSeq(bufs, h + 1, Len(bufs)))

\* a byte buffer cut into pages of 512 bytes, the last one shorter when the
\* length is no multiple of 512
Pages(bytes) ==
    LET n == (Len(bytes) + 511) \div 512
    IN [i \in 1..n |->
           SubSeq(bytes, 512 * (i - 1) + 1,
                  IF 512 * i > Len(bytes) THEN Len(bytes) ELSE 512 * i)]

\* the argument baseUf2Bytes and the returned buffer, as byte sequences
baseUf2Bytes == Concat(basePages)

out == Concat(outPages)

\* the returned buffer: out.set(block, i * 512) for every renumbered block
serializeAndRenumber(allBlocks512) == Concat(Renumbered(allBlocks512))

\* BaseChunks with the kept chunks pushed in the opposite order
BaseChunksReversed(bytes) ==
    LET n == (Len(bytes) + UF2_BLOCK_SIZE - 1) \div UF2_BLOCK_SIZE
        chunks == [i \in 1..n |->
                      Slice(bytes, UF2_BLOCK_SIZE * (n - i), UF2_BLOCK_SIZE * (n - i + 1))]
    IN KeepPositions(chunks,
                     {i \in 1..n : ~inUserRange(getUint32(chunks[i], 12))}, 1)

\* the 512-byte chunks of baseUf2Bytes whose targetAddr is outside the region
BaseChunks(bytes) ==
    LET n == (Len(bytes) + UF2_BLOCK_SIZE - 1) \div UF2_BLOCK_SIZE
        chunks == [i \in 1..n |->
                      Slice(bytes, UF2_BLOCK_SIZE * (i - 1), UF2_BLOCK_SIZE * i)]
    IN KeepPositions(chunks,
                     {i \in 1..n : ~inUserRange(getUint32(chunks[i], 12))}, 1)

-----------------------------------------------------------------------------
(* Inputs: base images laid out as the UF2 block format says, and scripts *)

\* one 512-byte slice of a base image; the whole 476-byte data area carries a
\* pattern, so that a payload cut at the wrong place shows
MakeBlock(b) ==
    LET header == U32Bytes(b.magicStart0) \o U32Bytes(b.magicStart1)
                  \o U32Bytes(b.flags) \o U32Bytes(b.targetAddr)
                  \o U32Bytes(b.payloadSize) \o U32Bytes(b.blockNo)
                  \o U32Bytes(b.numBlocks) \o U32Bytes(b.familyId)
        trailer == U32Bytes(b.magicEnd)
        data == [i \in 1..UF2_MAX_PAYLOAD |-> (b.fill + i) % 256]
    IN header \o data \o trailer

GoodBlock ==
    [magicStart0 |-> UF2_MAGIC_START0, magicStart1 |-> UF2_MAGIC_START1,
     magicEnd |-> UF2_MAGIC_END, flags |-> ToU32(FAMILY_FLAG),
     targetAddr |-> <<\h1000, \h0000>>, payloadSize |-> ToU32(256),
     blockNo |-> ToU32(7), numBlocks |-> ToU32(9),
     familyId |-> RP2040_FAMILY_ID, fill |-> 17]

\* the kinds of slice a base image is made of
BlockKinds ==
    { GoodBlock,
      \* a stale block at the first address of the user region
      [GoodBlock EXCEPT !.targetAddr = <<\h101F, \hC000>>, !.blockNo = U32Zero,
                        !.numBlocks = ToU32(1), !.fill = 40],
      \* a block at the last address of the user region, without the family flag
      [GoodBlock EXCEPT !.targetAddr = <<\h101F, \hFFFF>>, !.flags = U32Zero,
                        !.familyId = <<\hDEAD, \hBEEF>>, !.payloadSize = U32Zero],
      \* one byte below the region, a full data area, no family flag
      [GoodBlock EXCEPT !.targetAddr = <<\h101F, \hBFFF>>, !.flags = U32Zero,
                        !.payloadSize = ToU32(476), !.blockNo = <<\hFFFF, \hFFFF>>],
      \* one byte above the region
      [GoodBlock EXCEPT !.targetAddr = <<\h1020, \h0000>>, !.fill = 99],
      \* each of the three magics wrong
      [GoodBlock EXCEPT !.magicStart0 = <<\h0A32, \h4654>>],
      [GoodBlock EXCEPT !.magicStart1 = <<\h1E5D, \h5157>>, !.payloadSize = ToU32(477)],
      [GoodBlock EXCEPT !.magicEnd = U32Zero, !.targetAddr = <<\h101F, \hC100>>],
      \* payloadSize one above the data area
      [GoodBlock EXCEPT !.payloadSize = ToU32(477)] }

\* the sequences over S of length at most n
RECURSIVE SeqsUpTo(_, _)
SeqsUpTo(S, n) ==
    IF n = 0 THEN {<<>>}
    ELSE LET shorter == SeqsUpTo(S, n - 1)
         IN shorter \cup {Append(q, x) : q \in shorter, x \in S}

\* the concatenation of the slices
Flatten(blocks) == Concat([i \in 1..Len(blocks) |-> MakeBlock(blocks[i])])

\* block-aligned base images of up to MaxBaseBlocks slices
AlignedBases == {Flatten(q) : q \in SeqsUpTo(BlockKinds, MaxBaseBlocks)}

\* base images whose length is not a multiple of 512
MisalignedBases ==
    {Flatten(q) \o <<0>> :
        q \in SeqsUpTo({b \in BlockKinds : b.targetAddr = GoodBlock.targetAddr},
                       MaxBaseBlocks)}
    \cup {SubSeq(MakeBlock(GoodBlock), 1, 511)}

\* base images the script inputs are combined with
FewBases ==
    { <<>>, MakeBlock(GoodBlock) \o MakeBlock(GoodBlock),
      MakeBlock(GoodBlock) \o <<0>> }

\* a base image of 128 valid blocks, at distinct addresses below the user region
ScenarioBase ==
    Concat([k \in 1..128 |->
        MakeBlock([GoodBlock EXCEPT !.targetAddr = ToU32(\h10000000 + 256 * (k - 1)),
                                    !.blockNo = ToU32(k - 1),
                                    !.numBlocks = ToU32(128)])])

Rep(c, n) == Filled(n, c)

\* "---demo\nprint(1)\n"
DemoScript ==
    <<45, 45, 45, 100, 101, 109, 111, 10, 112, 114, 105, 110, 116, 40, 49, 41, 10>>

SmallScripts ==
    { <<>>,
      DemoScript,
      \* "x\n---n": the marker on a later line
      <<120, 10, 45, 45, 45, 110>>,
      \* "--- a b \r\nx"
      <<45, 45, 45, 32, 97, 32, 98, 32, 13, 10, 120>>,
      \* "---" and a name of 31, of 32 bytes
      <<45, 45, 45>> \o Rep(97, 31),
      <<45, 45, 45>> \o Rep(97, 32) \o <<10>>,
      \* "---", 30 bytes and a two-byte character across byte 31
      <<45, 45, 45>> \o Rep(97, 30) \o <<\hE9, 10>>,
      \* two-, three- and four-byte characters and a lone surrogate
      <<\hE9, \h20AC, \hD83D, \hDE00, \hD800, 10>>,
      \* " ---x": the marker is not at the start of the line
      <<32, 45, 45, 45, 120>>,
      \* "--x": two dashes only
      <<45, 45, 120>>,
      \* "---\t\r\ny": the marker and nothing but whitespace
      <<45, 45, 45, 9, 13, 10, 121>> }

\* scripts around MAX_SCRIPT_LEN bytes
LargeScripts ==
    { <<45, 45, 45, 98, 10>> \o Rep(120, MAX_SCRIPT_LEN - 6),
      <<45, 45, 45, 98, 10>> \o Rep(120, MAX_SCRIPT_LEN - 5),
      <<45, 45, 45, 98, 10>> \o Rep(120, MAX_SCRIPT_LEN - 4),
      \* MAX_SCRIPT_LEN code units, one byte more in UTF-8
      <<\hE9>> \o Rep(120, MAX_SCRIPT_LEN - 1) }

-----------------------------------------------------------------------------
(* injectScriptIntoBaseUf2, statement by statement *)

\* no pair of interleaved invocations is running
PairIdle ==
    /\ buffers = <<>>
    /\ calls = <<>>

\* new CrowConnection(): the constructor's values
ConnNew ==
    /\ port = "null"
    /\ reader = "null"
    /\ writer = "null"
    /\ isConnected = FALSE
    /\ lineBuffer = <<>>
    /\ readLoop = "none"
    /\ closing = "none"
    /\ connects = 0
    /\ incoming = <<>>
    /\ streamText = <<>>
    /\ delivered = <<>>

\* a run of history keys is not under way
NoPresses == [widget |-> "none", text |-> <<>>, ups |-> 0, downs |-> 0]

\* new DruidApp(): the constructor's values, an empty editor
AppNew ==
    /\ editorValue = <<>>
    /\ scriptModified = FALSE
    /\ frames = <<>>
    /\ wire = <<>>
    /\ commandHistory = <<>>
    /\ historyIndex = -1
    /\ currentInput = <<>>
    /\ replEditorValue = <<>>
    /\ replInputValue = <<>>
    /\ replAutocompleteEnabled = TRUE
    /\ presses = NoPresses

Init ==
    /\ \/ /\ \E b \in AlignedBases \cup MisalignedBases \cup {ScenarioBase} :
                 basePages = Pages(b)
          /\ scriptText = DemoScript
       \/ /\ \E b \in FewBases : basePages = Pages(b)
          /\ scriptText \in SmallScripts \cup LargeScripts
    /\ pc = "encode"
    /\ scriptUtf8 = <<>>
    /\ name = <<>>
    /\ image16k = <<>>
    /\ scriptBlocks512 = <<>>
    /\ parsed = <<>>
    /\ baseBlocks = <<>>
    /\ baseBlocks512 = <<>>
    /\ outPages = <<>>
    /\ err = NoError
    /\ PairIdle
    /\ ConnNew
    /\ AppNew

\* const scriptUtf8 = new TextEncoder().encode(scriptText)
Encode ==
    /\ pc = "encode"
    /\ scriptUtf8' = Utf8Encode(scriptText)
    /\ pc' = "name"
    /\ UNCHANGED <<basePages, scriptText, name, image16k, scriptBlocks512,
                   parsed, baseBlocks, baseBlocks512, outPages, err>>
    /\ UNCHANGED notUf2Vars

\* const name = deriveScriptName(scriptText)
DeriveName ==
    /\ pc = "name"
    /\ name' = deriveScriptName(scriptText)
    /\ pc' = "build"
    /\ UNCHANGED <<basePages, scriptText, scriptUtf8, image16k, scriptBlocks512,
                   parsed, baseBlocks, baseBlocks512, outPages, err>>
    /\ UNCHANGED notUf2Vars

\* const image16k = buildUserFlashImage(scriptUtf8, name)
Build ==
    /\ pc = "build"
    /\ LET r == buildUserFlashImage(scriptUtf8, name, DEFAULT_VERSION_WORD)
       IN /\ err' = r.err
          /\ image16k' = r.image
          /\ pc' = IF r.err.kind # "none" THEN "failed" ELSE "split"
    /\ UNCHANGED <<basePages, scriptText, scriptUtf8, name, scriptBlocks512,
                   parsed, baseBlocks, baseBlocks512, outPages>>
    /\ UNCHANGED notUf2Vars

\* const scriptBlocks512 = makeUserScriptUf2Blocks(image16k)
Split ==
    /\ pc = "split"
    /\ LET r == makeUserScriptUf2Blocks(image16k)
       IN /\ err' = r.err
          /\ scriptBlocks512' = r.blocks
          /\ pc' = IF r.err.kind # "none" THEN "failed" ELSE "parse"
    /\ UNCHANGED <<basePages, scriptText, scriptUtf8, name, image16k,
                   parsed, baseBlocks, baseBlocks512, outPages>>
    /\ UNCHANGED notUf2Vars

\* parseUf2(baseUf2Bytes)
Parse ==
    /\ pc = "parse"
    /\ \E bytes \in {baseUf2Bytes} :
          LET r == parseUf2(bytes)
          IN /\ err' = r.err
             /\ parsed' = r.blocks
             /\ pc' = IF r.err.kind # "none" THEN "failed" ELSE "filter"
    /\ UNCHANGED <<basePages, scriptText, scriptUtf8, name, image16k,
                   scriptBlocks512, baseBlocks, baseBlocks512, outPages>>
    /\ UNCHANGED notUf2Vars

\* const baseBlocks = filterOutUserRegion(...)
Filter ==
    /\ pc = "filter"
    /\ baseBlocks' = filterOutUserRegion(parsed)
    /\ pc' = "chunks"
    /\ UNCHANGED <<basePages, scriptText, scriptUtf8, name, image16k,
                   scriptBlocks512, parsed, baseBlocks512, outPages, err>>
    /\ UNCHANGED notUf2Vars

\* the loop that fills baseBlocks512
Chunks ==
    /\ pc = "chunks"
    /\ \E bytes \in {baseUf2Bytes} : baseBlocks512' = BaseChunks(bytes)
    /\ pc' = "serialize"
    /\ UNCHANGED <<basePages, scriptText, scriptUtf8, name, image16k,
                   scriptBlocks512, parsed, baseBlocks, outPages, err>>
    /\ UNCHANGED notUf2Vars

\* return serializeAndRenumber([...baseBlocks512, ...scriptBlocks512]); the
\* chunks and the script blocks are renumbered in place
Serialize ==
    /\ pc = "serialize"
    /\ LET all == baseBlocks512 \o scriptBlocks512
           n == Len(baseBlocks512)
       IN /\ outPages' = Pages(serializeAndRenumber(all))
          /\ baseBlocks512' = SubSeq(Renumbered(all), 1, n)
          /\ scriptBlocks512' = SubSeq(Renumbered(all), n + 1, Len(all))
    /\ pc' = "done"
    /\ UNCHANGED <<basePages, scriptText, scriptUtf8, name, image16k,
                   parsed, baseBlocks, err>>
    /\ UNCHANGED notUf2Vars

Next ==
    \/ Encode
    \/ DeriveName
    \/ Build
    \/ Split
    \/ Parse
    \/ Filter
    \/ Chunks
    \/ Serialize

Spec == Init /\ [][Next]_vars

-----------------------------------------------------------------------------
(* ImageValidator: the source lists what to validate before the UF2 is     *)
(* offered for download but has no function for it; validate is written    *)
(* from the specification's contract (4.6), checks (a) to (d) in order      *)

ErrNumbering == [kind |-> "non-contiguous numbering", at |-> 0]

ErrDuplicateAddr == [kind |-> "duplicate address", at |-> 0]

ErrRegionRun == [kind |-> "wrong region block count/stride", at |-> 0]

ErrFamily == [kind |-> "missing family flag", at |-> 0]

\* (a) numBlocks is the container length and blockNo runs from 0
NumberingHolds(container) ==
    \A i \in 1..Len(container) :
        /\ container[i].numBlocks = ToU32(Len(container))
        /\ container[i].blockNo = ToU32(i - 1)

\* (b) no two blocks share a targetAddr
AddrsDistinct(container) ==
    \A i, j \in 1..Len(container) :
        i < j => container[i].targetAddr # container[j].targetAddr

\* the positions of the blocks whose targetAddr is in [regionStart, regionEnd]
RegionBlocks(container, regionStart, regionEnd) ==
    {i \in 1..Len(container) :
        /\ U32Le(ToU32(regionStart), container[i].targetAddr)
        /\ U32Le(container[i].targetAddr, ToU32(regionEnd))}

\* (c) exactly expectedRegionBlockCount region blocks, their addresses a run
\* from regionStart at the stride of the block payload size
RegionRunHolds(container, regionStart, regionEnd, expectedRegionBlockCount) ==
    LET region == RegionBlocks(container, regionStart, regionEnd)
    IN /\ Cardinality(region) = expectedRegionBlockCount
       /\ {container[i].targetAddr : i \in region}
            = {ToU32(regionStart + k * USER_BLOCK_SIZE) :
                  k \in 0..(expectedRegionBlockCount - 1)}

\* (d) every region block has the family flag and the family identifier
FamilyHolds(container, regionStart, regionEnd) ==
    \A i \in RegionBlocks(container, regionStart, regionEnd) :
        /\ U32And(container[i].flags, ToU32(FAMILY_FLAG)) = ToU32(FAMILY_FLAG)
        /\ container[i].familyId = RP2040_FAMILY_ID

\* validate with the family check before the region check
validateFamilyBeforeRegion(container, regionStart, regionEnd, expectedRegionBlockCount) ==
    IF ~NumberingHolds(container) THEN ErrNumbering
    ELSE IF ~AddrsDistinct(container) THEN ErrDuplicateAddr
    ELSE IF ~FamilyHolds(container, regionStart, regionEnd) THEN ErrFamily
    ELSE IF ~RegionRunHolds(container, regionStart, regionEnd,
                            expectedRegionBlockCount) THEN ErrRegionRun
    ELSE NoError

\* the result: NoError for Ok, else the variant of the first check that fails
validate(container, regionStart, regionEnd, expectedRegionBlockCount) ==
    IF ~NumberingHolds(container) THEN ErrNumbering
    ELSE IF ~AddrsDistinct(container) THEN ErrDuplicateAddr
    ELSE IF ~RegionRunHolds(container, regionStart, regionEnd,
                            expectedRegionBlockCount) THEN ErrRegionRun
    ELSE IF ~FamilyHolds(container, regionStart, regionEnd) THEN ErrFamily
    ELSE NoError

-----------------------------------------------------------------------------
(* The functions of the algorithm called on their own, with arguments that *)
(* injectScriptIntoBaseUf2 never passes                                    *)

\* lists of 512-byte blocks handed to serializeAndRenumber
MergeInputs ==
    {[i \in 1..Len(q) |-> MakeBlock(q[i])] : q \in SeqsUpTo(BlockKinds, MaxBaseBlocks)}

\* the lengths of the images handed to makeUserScriptUf2Blocks
SplitLengths ==
    {0, 1, USER_BLOCK_SIZE - 1, USER_BLOCK_SIZE, USER_BLOCK_SIZE + 1,
     2 * USER_BLOCK_SIZE, USER_FLASH_SIZE - USER_BLOCK_SIZE, USER_FLASH_SIZE - 1,
     USER_FLASH_SIZE, USER_FLASH_SIZE + 1, USER_FLASH_SIZE + USER_BLOCK_SIZE}

\* images whose bytes differ from slice to slice
SplitImages ==
    {[i \in 1..n |-> (c + i) % 251] : n \in SplitLengths, c \in 0..4}

\* the 512 bytes of a Uf2Block, laid out as createUf2Block lays out its block
\* and as the UF2 block format says: the eight header words, the payload from
\* byte 32, zeros up to the trailing magic
SerializeBlock(b) ==
    LET header == U32Bytes(b.magicStart0) \o U32Bytes(b.magicStart1)
                  \o U32Bytes(b.flags) \o U32Bytes(b.targetAddr)
                  \o U32Bytes(b.payloadSize) \o U32Bytes(b.blockNo)
                  \o U32Bytes(b.numBlocks) \o U32Bytes(b.familyId)
        trailer == U32Bytes(UF2_MAGIC_END)
        block == Filled(UF2_BLOCK_SIZE, 0)
    IN SetBytes(SetBytes(SetBytes(block, header, 0), b.payload, UF2_PAYLOAD_OFFSET),
                trailer, UF2_BLOCK_SIZE - 4)

\* the Uf2Block of a kind of slice, with a payload of payloadSize bytes
BlockOf(kind, blockNo, numBlocks) ==
    [magicStart0 |-> kind.magicStart0, magicStart1 |-> kind.magicStart1,
     flags |-> kind.flags, targetAddr |-> kind.targetAddr,
     payloadSize |-> kind.payloadSize, blockNo |-> blockNo, numBlocks |-> numBlocks,
     familyId |-> kind.familyId,
     payload |-> [i \in 1..U32ToInt(kind.payloadSize) |-> (kind.fill + i) % 256]]

\* the kinds of slice parseUf2 accepts
ParsableKinds ==
    {k \in BlockKinds :
        /\ k.magicStart0 = UF2_MAGIC_START0 /\ k.magicStart1 = UF2_MAGIC_START1
        /\ k.magicEnd = UF2_MAGIC_END
        /\ U32Le(k.payloadSize, ToU32(UF2_MAX_PAYLOAD))}

\* containers of up to MaxBaseBlocks blocks: numbered by position, and with the
\* numbers their kinds carry
Containers ==
    LET lists == SeqsUpTo(ParsableKinds, MaxBaseBlocks)
    IN {[i \in 1..Len(q) |-> BlockOf(q[i], ToU32(i - 1), ToU32(Len(q)))] : q \in lists}
       \cup {[i \in 1..Len(q) |-> BlockOf(q[i], q[i].blockNo, q[i].numBlocks)] :
                q \in lists}

\* the Uf2Block of the i-th script block (i from 0), as createUf2Block's bytes
\* parse
ScriptBlockKind(i) ==
    [GoodBlock EXCEPT !.targetAddr = ToU32(USER_FLASH_START + i * USER_BLOCK_SIZE),
                      !.blockNo = U32Zero, !.numBlocks = U32Zero, !.fill = i]

\* the region blocks of a container handed to validate: the 64 script blocks,
\* and the 64 with one of them missing, moved off the stride, without the family
\* flag, or with another family identifier
RegionVariants ==
    LET fresh == [i \in 1..(USER_FLASH_SIZE \div USER_BLOCK_SIZE) |-> ScriptBlockKind(i - 1)]
    IN { fresh,
         SubSeq(fresh, 1, Len(fresh) - 1),
         [fresh EXCEPT ![5].targetAddr = <<\h101F, \hC480>>],
         [fresh EXCEPT ![10].flags = U32Zero],
         [fresh EXCEPT ![64].familyId = <<\hDEAD, \hBEEF>>],
         [fresh EXCEPT ![5].targetAddr = <<\h101F, \hC480>>, ![10].flags = U32Zero] }

\* containers handed to validate: no base block, one, or two at the same
\* address, followed by region blocks, numbered by position or carrying the
\* numbers of their kinds
ValidateInputs ==
    LET bases == SeqsUpTo(ParsableKinds, 1) \cup {<<GoodBlock, GoodBlock>>}
        lists == {q \o r : q \in bases, r \in RegionVariants}
    IN {[i \in 1..Len(q) |-> BlockOf(q[i], ToU32(i - 1), ToU32(Len(q)))] : q \in lists}
       \cup {[i \in 1..Len(q) |-> BlockOf(q[i], q[i].blockNo, q[i].numBlocks)] :
                q \in lists}

InitCalls ==
    /\ \/ /\ pc = "call serializeAndRenumber"
          /\ baseBlocks512 \in MergeInputs
          /\ image16k = <<>>
          /\ baseBlocks = <<>>
          /\ parsed = <<>>
       \/ /\ pc = "call makeUserScriptUf2Blocks"
          /\ image16k \in SplitImages
          /\ baseBlocks512 = <<>>
          /\ baseBlocks = <<>>
          /\ parsed = <<>>
       \/ /\ pc = "call parseUf2 on a serialized container"
          /\ baseBlocks \in Containers
          /\ baseBlocks512 = <<>>
          /\ image16k = <<>>
          /\ parsed = <<>>
       \/ /\ pc = "call validate"
          /\ baseBlocks \in ValidateInputs
          /\ baseBlocks512 = <<>>
          /\ image16k = <<>>
          /\ parsed = <<>>
       \/ /\ pc = "call filterOutUserRegion"
          /\ parsed \in Containers
          /\ baseBlocks = <<>>
          /\ baseBlocks512 = <<>>
          /\ image16k = <<>>
    /\ basePages = <<>>
    /\ scriptText = <<>>
    /\ scriptUtf8 = <<>>
    /\ name = <<>>
    /\ scriptBlocks512 = <<>>
    /\ outPages = <<>>
    /\ err = NoError
    /\ PairIdle
    /\ ConnNew
    /\ AppNew

\* serializeAndRenumber(baseBlocks512): the blocks are renumbered in place
MergeCall ==
    /\ pc = "call serializeAndRenumber"
    /\ outPages' = Pages(serializeAndRenumber(baseBlocks512))
    /\ baseBlocks512' = Renumbered(baseBlocks512)
    /\ pc' = "serializeAndRenumber returned"
    /\ UNCHANGED <<basePages, scriptText, scriptUtf8, name, image16k,
                   scriptBlocks512, parsed, baseBlocks, err>>
    /\ UNCHANGED notUf2Vars

\* makeUserScriptUf2Blocks(image16k)
SplitCall ==
    /\ pc = "call makeUserScriptUf2Blocks"
    /\ LET r == makeUserScriptUf2Blocks(image16k)
       IN /\ err' = r.err
          /\ scriptBlocks512' = r.blocks
          /\ pc' = IF r.err.kind # "none" THEN "makeUserScriptUf2Blocks threw"
                   ELSE "makeUserScriptUf2Blocks returned"
    /\ UNCHANGED <<basePages, scriptText, scriptUtf8, name, image16k,
                   parsed, baseBlocks, baseBlocks512, outPages>>
    /\ UNCHANGED notUf2Vars

\* parseUf2(serializeAndRenumber(blocks)), the blocks being the 512-byte forms
\* of the Uf2Blocks of a container
RoundTripCall ==
    /\ pc = "call parseUf2 on a serialized container"
    /\ LET blocks == [i \in 1..Len(baseBlocks) |-> SerializeBlock(baseBlocks[i])]
           bytes == serializeAndRenumber(blocks)
           r == parseUf2(bytes)
       IN /\ baseBlocks512' = Renumbered(blocks)
          /\ outPages' = Pages(bytes)
          /\ err' = r.err
          /\ parsed' = r.blocks
          /\ pc' = IF r.err.kind # "none" THEN "parseUf2 threw" ELSE "parseUf2 returned"
    /\ UNCHANGED <<basePages, scriptText, scriptUtf8, name, image16k,
                   scriptBlocks512, baseBlocks>>
    /\ UNCHANGED notUf2Vars

\* baseBlocks = filterOutUserRegion(parsed)
FilterCall ==
    /\ pc = "call filterOutUserRegion"
    /\ baseBlocks' = filterOutUserRegion(parsed)
    /\ pc' = "filterOutUserRegion returned"
    /\ UNCHANGED <<basePages, scriptText, scriptUtf8, name, image16k, scriptBlocks512,
                   parsed, baseBlocks512, outPages, err>>
    /\ UNCHANGED notUf2Vars

\* filterOutUserRegion on what filterOutUserRegion returned: parsed takes the
\* first result, baseBlocks the second
FilterAgainCall ==
    /\ pc = "filterOutUserRegion returned"
    /\ parsed' = baseBlocks
    /\ baseBlocks' = filterOutUserRegion(baseBlocks)
    /\ pc' = "filterOutUserRegion returned again"
    /\ UNCHANGED <<basePages, scriptText, scriptUtf8, name, image16k, scriptBlocks512,
                   baseBlocks512, outPages, err>>
    /\ UNCHANGED notUf2Vars

\* validate(baseBlocks, 0x101FC000, 0x101FFFFF, 64)
ValidateCall ==
    /\ pc = "call validate"
    /\ err' = validate(baseBlocks, USER_FLASH_START, USER_FLASH_END,
                       USER_FLASH_SIZE \div USER_BLOCK_SIZE)
    /\ pc' = "validate returned"
    /\ UNCHANGED <<basePages, scriptText, scriptUtf8, name, image16k, scriptBlocks512,
                   parsed, baseBlocks, baseBlocks512, outPages>>
    /\ UNCHANGED notUf2Vars

NextCalls ==
    \/ MergeCall
    \/ SplitCall
    \/ RoundTripCall
    \/ ValidateCall
    \/ FilterCall
    \/ FilterAgainCall

SpecCalls == InitCalls /\ [][NextCalls]_vars

-----------------------------------------------------------------------------
(* Properties *)

\* the user region, written out
InRegion(addr) == U32Le(<<\h101F, \hC000>>, addr) /\ U32Le(addr, <<\h101F, \hFFFF>>)

\* the 32-bit field at byte off of the k-th 512-byte slice (k from 0) of a buffer
Field(buf, k, off) == getUint32(buf, 512 * k + off)

\* the number of whole 512-byte slices of a buffer
Slices(buf) == Len(buf) \div 512

\* parseUf2 has returned or thrown
ParseRan ==
    \/ pc \in {"filter", "chunks", "serialize", "done"}
    \/ pc = "failed" /\ err.kind \in {"length not multiple of 512", "bad magic",
                                      "invalid payloadSize"}

\* buildUserFlashImage has returned or thrown
BuildRan == pc \notin {"encode", "name", "build"}

\* the checks of the validator on a buffer
NumberingOk(buf) ==
    \A k \in 0..(Slices(buf) - 1) :
        Field(buf, k, 20) = ToU32(k) /\ Field(buf, k, 24) = ToU32(Slices(buf))

NoDuplicateAddr(buf) ==
    \A j, k \in 0..(Slices(buf) - 1) :
        j # k => Field(buf, j, 12) # Field(buf, k, 12)

RegionSlices(buf) == {k \in 0..(Slices(buf) - 1) : InRegion(Field(buf, k, 12))}

RegionRunOk(buf) ==
    /\ Cardinality(RegionSlices(buf)) = 64
    /\ {Field(buf, k, 12) : k \in RegionSlices(buf)}
         = {ToU32(\h101FC000 + 256 * i) : i \in 0..63}

RegionFamilyOk(buf) ==
    \A k \in RegionSlices(buf) :
        /\ BitAnd(Field(buf, k, 8)[2], \h2000, 16) = \h2000
        /\ Field(buf, k, 28) = <<\hE48B, \hFF56>>

MergedCount == Len(baseBlocks512) + Len(scriptBlocks512)

\* C2: after serializeAndRenumber of n blocks the i-th block has blockNo = i and
\* numBlocks = n, whatever the blocks carried before, and the output is 512*n bytes
C2_Renumbered ==
    pc = "done" =>
        /\ Len(out) = 512 * MergedCount
        /\ \A i \in 0..(MergedCount - 1) :
              /\ Field(out, i, 20) = ToU32(i)
              /\ Field(out, i, 24) = ToU32(MergedCount)

\* a returned image whose first base block kept its place and carried blockNo 7
C2_Witness ==
    /\ pc = "done"
    /\ Len(baseBlocks512) = 2
    /\ Field(baseUf2Bytes, 0, 20) = ToU32(7)
    /\ Field(baseUf2Bytes, 0, 12) = Field(out, 0, 12)
    /\ Field(out, 0, 20) = U32Zero

\* the slices of the base image that target the user region
StaleSlices == {k \in 0..(Slices(baseUf2Bytes) - 1) : InRegion(Field(baseUf2Bytes, k, 12))}

\* C3: the output holds exactly 64 blocks that target the user region, they are the
\* freshly built blocks at 0x101FC000 + 256*i carrying the region image, and no
\* block of the base image inside the region survives
C3_RegionReplaced ==
    pc = "done" =>
        LET nb == Slices(baseUf2Bytes) - Cardinality(StaleSlices)
        IN /\ Slices(out) = nb + 64
           /\ RegionSlices(out) = nb..(nb + 63)
           /\ \A i \in 0..63 :
                 /\ Field(out, nb + i, 12) = ToU32(\h101FC000 + 256 * i)
                 /\ SubSeq(out, 512 * (nb + i) + 33, 512 * (nb + i) + 288)
                      = SubSeq(image16k, 256 * i + 1, 256 * i + 256)
           /\ \A k \in 0..(nb - 1) : ~InRegion(Field(out, k, 12))

\* a returned image whose base held blocks at the first and the last address
\* of the region
C3_Witness ==
    /\ pc = "done"
    /\ \E k \in StaleSlices : Field(baseUf2Bytes, k, 12) = <<\h101F, \hC000>>
    /\ \E k \in StaleSlices : Field(baseUf2Bytes, k, 12) = <<\h101F, \hFFFF>>

\* C4: build throws "script too large" exactly when the script is longer than
\* 16348 bytes; then no image and no output exist, and otherwise the image holds
\* the whole script
C4_ScriptTooLarge ==
    BuildRan =>
        /\ (pc = "failed" /\ err.kind = "script too large") <=> Len(scriptUtf8) > 16348
        /\ Len(scriptUtf8) > 16348 =>
              /\ err.at = Len(scriptUtf8)
              /\ image16k = <<>> /\ scriptBlocks512 = <<>> /\ out = <<>>
        /\ Len(scriptUtf8) <= 16348 =>
              /\ Len(image16k) = 16384
              /\ SubSeq(image16k, 37, 36 + Len(scriptUtf8)) = scriptUtf8
              /\ getUint32(image16k, 0)[1] = Len(scriptUtf8)

\* a script of 16349 bytes was refused
C4_Witness ==
    /\ pc = "failed"
    /\ err.kind = "script too large"
    /\ Len(scriptUtf8) = 16349
    /\ Len(scriptText) = 16348

\* C5: parse throws "length not multiple of 512" for every input whose length is
\* not a multiple of 512, whatever its slices hold, and returns no block
C5_Misaligned ==
    ParseRan =>
        /\ Len(baseUf2Bytes) % 512 # 0 =>
              pc = "failed" /\ err.kind = "length not multiple of 512" /\ parsed = <<>>
        /\ err.kind = "length not multiple of 512" => Len(baseUf2Bytes) % 512 # 0

\* a 513-byte input whose first slice has a wrong magic was refused for its length
C5_Witness ==
    /\ pc = "failed"
    /\ err.kind = "length not multiple of 512"
    /\ Len(baseUf2Bytes) = 513
    /\ Field(baseUf2Bytes, 0, 0) # <<\h0A32, \h4655>>

\* the least element of a non-empty set of numbers
Least(S) == CHOOSE x \in S : \A y \in S : x <= y

\* the slices of the base image with a wrong leading or trailing magic
BadMagicSlices ==
    {k \in 0..(Slices(baseUf2Bytes) - 1) :
        \/ Field(baseUf2Bytes, k, 0) # <<\h0A32, \h4655>>
        \/ Field(baseUf2Bytes, k, 4) # <<\h9E5D, \h5157>>
        \/ Field(baseUf2Bytes, k, 508) # <<\h0AB1, \h6F30>>}

\* the slices of the base image whose payloadSize field exceeds 476
OverflowSlices ==
    {k \in 0..(Slices(baseUf2Bytes) - 1) : U32Lt(<<0, 476>>, Field(baseUf2Bytes, k, 16))}

Aligned == Len(baseUf2Bytes) % 512 = 0

ParseOk == pc \in {"filter", "chunks", "serialize", "done"}

\* C6 as claimed: on a block-aligned input with a wrong magic in some slice, parse
\* throws "bad magic" at the offset of the first such slice, and it succeeds only
\* when every magic is right
C6_BadMagicAlways ==
    /\ ParseRan /\ Aligned /\ BadMagicSlices # {} =>
          /\ pc = "failed"
          /\ err.kind = "bad magic"
          /\ err.at = 512 * Least(BadMagicSlices)
    /\ ParseOk => BadMagicSlices = {}

\* C6 amended: on a block-aligned input with a wrong magic in some slice parse
\* throws; it throws "bad magic" at the offset of the first such slice unless an
\* earlier slice has payloadSize > 476, and then it throws the payloadSize error
\* of the first of those; it succeeds only when every magic is right
C6_BadMagicFirst ==
    /\ ParseRan /\ Aligned /\ BadMagicSlices # {} =>
          LET first == Least(BadMagicSlices)
              earlier == {k \in OverflowSlices : k < first}
          IN /\ pc = "failed"
             /\ IF earlier = {}
                THEN err.kind = "bad magic" /\ err.at = 512 * first
                ELSE /\ err.kind = "invalid payloadSize"
                     /\ err.at = Field(baseUf2Bytes, Least(earlier), 16)
    /\ ParseRan /\ err.kind = "bad magic" => err.at \in {512 * k : k \in BadMagicSlices}
    /\ ParseOk => BadMagicSlices = {}

\* parse refused the second slice for its trailing magic alone
C6_Witness ==
    /\ pc = "failed"
    /\ err.kind = "bad magic"
    /\ err.at = 512
    /\ Field(baseUf2Bytes, 1, 0) = <<\h0A32, \h4655>>
    /\ Field(baseUf2Bytes, 1, 4) = <<\h9E5D, \h5157>>
    /\ Field(baseUf2Bytes, 1, 508) # <<\h0AB1, \h6F30>>

\* every parsed block has payloadSize <= 476 and its payload is the payloadSize
\* bytes from offset 32 of its slice
PayloadsExact ==
    ParseOk =>
        /\ Len(parsed) = Slices(baseUf2Bytes)
        /\ \A i \in 1..Len(parsed) :
              /\ parsed[i].payloadSize = Field(baseUf2Bytes, i - 1, 16)
              /\ U32Le(parsed[i].payloadSize, <<0, 476>>)
              /\ Len(parsed[i].payload) = parsed[i].payloadSize[2]
              /\ parsed[i].payload
                   = SubSeq(baseUf2Bytes, 512 * (i - 1) + 33,
                            512 * (i - 1) + 32 + parsed[i].payloadSize[2])

\* C7 as claimed: parse throws "invalid payloadSize" whenever a block of a
\* block-aligned input has payloadSize > 476, and the blocks of a parsed container
\* have payloadSize <= 476 and exactly that many payload bytes from offset 32
C7_OverflowAlways ==
    /\ ParseRan /\ Aligned /\ OverflowSlices # {} =>
          pc = "failed" /\ err.kind = "invalid payloadSize"
    /\ PayloadsExact

\* C7 amended: on a block-aligned input with a block of payloadSize > 476 parse
\* throws; it throws "invalid payloadSize" when no slice up to and including the
\* first such block has a wrong magic, and "bad magic" otherwise; the blocks of a
\* parsed container have payloadSize <= 476 and exactly that many payload bytes
\* from offset 32
C7_OverflowFirst ==
    /\ ParseRan /\ Aligned /\ OverflowSlices # {} =>
          LET first == Least(OverflowSlices)
          IN /\ pc = "failed"
             /\ IF \E k \in BadMagicSlices : k <= first
                THEN err.kind = "bad magic"
                ELSE /\ err.kind = "invalid payloadSize"
                     /\ err.at = Field(baseUf2Bytes, first, 16)
    /\ ParseRan /\ err.kind = "invalid payloadSize" => OverflowSlices # {}
    /\ PayloadsExact

\* parse refused a second block of payloadSize 477 after a block of payloadSize 476
C7_Witness ==
    /\ pc = "failed"
    /\ err.kind = "invalid payloadSize"
    /\ err.at = <<0, 477>>
    /\ Slices(baseUf2Bytes) = 2
    /\ Field(baseUf2Bytes, 0, 16) = <<0, 476>>
    /\ Field(baseUf2Bytes, 1, 16) = <<0, 477>>

\* C8: a parsed block whose flags lack bit 13 (0x2000) has familyId zero, whatever
\* bytes its slice holds at offset 28
C8_FamilyIdOnlyWithFlag ==
    ParseOk =>
        \A i \in 1..Len(parsed) :
            BitAnd(parsed[i].flags[2], \h2000, 16) = 0 => parsed[i].familyId = <<0, 0>>

\* version words the status word is packed for
SampleVersions == {0, 1, \h040, \h0FFF}

\* C9: for the length of every script build accepts (at most 16348), every magic
\* nibble and every 12-bit version, the packed status word gives back the length
\* from bits 16..31, the magic from bits 0..3 and the version from bits 4..15, and
\* is the sum of the three fields, each in its own bits of a 32-bit word; the
\* base image plays no part, so the scripts are taken with the empty one
C9_StatusWordRoundTrip ==
    pc = "split" /\ basePages = <<>> /\ Len(scriptUtf8) <= 16348 =>
        \A magic \in 0..15, version \in SampleVersions :
            LET len == Len(scriptUtf8)
                w == PackStatusWord(magic, version, len)
            IN /\ w[1] \in 0..65535 /\ w[2] \in 0..65535
               /\ U32ToInt(U32Shr(w, 16)) = len
               /\ BitAnd(w[2], 15, 16) = magic
               /\ BitAnd(U32Shr(w, 4)[2], \h0FFF, 16) = version
               /\ w = <<len, version * 16 + magic>>
               /\ magic = 10 /\ version = \h040 => getUint32(image16k, 0) = w

\* the image of a 16348-byte script was built, and its status word reads back
\* 16348 and the magic 0xA
C9_Witness ==
    /\ pc = "split"
    /\ basePages = <<>>
    /\ Len(scriptUtf8) = 16348
    /\ StatusLength(getUint32(image16k, 0)) = 16348
    /\ StatusMagic(getUint32(image16k, 0)) = 10

\* C10: a built image is 16384 bytes: the little-endian status word with the
\* script length in bits 16..31 and 0xA in the low nibble, then the name (at most
\* 31 bytes) and a NUL inside bytes 4..35, the script from byte 36, and 0xFF
\* everywhere else
C10_ImageLayout ==
    BuildRan /\ Len(scriptUtf8) <= 16348 =>
        LET len == Len(scriptUtf8)
            nameBytes == Utf8Encode(name)
            n == IF Len(nameBytes) > 31 THEN 31 ELSE Len(nameBytes)
        IN /\ Len(image16k) = 16384
           /\ image16k[3] + 256 * image16k[4] = len
           /\ image16k[1] % 16 = 10
           /\ (image16k[1] \div 16) + 16 * image16k[2] = \h040
           /\ \A i \in 1..n : image16k[4 + i] = nameBytes[i]
           /\ image16k[4 + n + 1] = 0
           /\ 4 + n + 1 <= 36
           /\ \A i \in (4 + n + 2)..36 : image16k[i] = 255
           /\ \A i \in 1..len : image16k[36 + i] = scriptUtf8[i]
           /\ \A i \in (36 + len + 1)..16384 : image16k[i] = 255

\* an image was built for a name of more than 31 bytes
C10_Witness ==
    /\ pc = "split"
    /\ Len(Utf8Encode(name)) > 31
    /\ Len(scriptUtf8) > 0

\* the name bytes in the name field of a built image: those before its first NUL
NameInField ==
    LET field == SubSeq(image16k, 5, 36)
        nuls == {i \in 1..32 : field[i] = 0}
    IN IF nuls = {} THEN field
       ELSE SubSeq(field, 1, (CHOOSE i \in nuls : \A j \in nuls : i <= j) - 1)

\* a UTF-8 continuation byte, 10xxxxxx
IsContinuationByte(b) == b \in 128..191

\* C11: the name written into a built image is at most 31 bytes of the encoded
\* name followed by a NUL inside the 32-byte field, and when the encoded name is
\* longer than 31 bytes the cut falls on a character boundary, never inside a
\* multi-byte character
C11_NameCutAtBoundary ==
    BuildRan /\ Len(image16k) = 16384 =>
        LET nameBytes == Utf8Encode(name)
            n == Len(NameInField)
        IN /\ n <= 31
           /\ image16k[4 + n + 1] = 0
           /\ n <= Len(nameBytes)
           /\ NameInField = SubSeq(nameBytes, 1, n)
           /\ Len(nameBytes) <= 31 => n = Len(nameBytes)
           /\ n < Len(nameBytes) => ~IsContinuationByte(nameBytes[n + 1])

\* the characters the claim's "surrounding whitespace" covers
Whitespace ==
    {9, 10, 11, 12, 13, 32, \hA0, \h1680, \h2028, \h2029, \h202F, \h205F,
     \h3000, \hFEFF} \cup {c \in 0..65535 : c >= \h2000 /\ c <= \h200A}

\* the length of the first line of a text: up to the first LF, or the CR before it
FirstLineLength(text) ==
    LET lfs == {i \in 1..Len(text) : text[i] = 10}
    IN IF lfs = {} THEN Len(text)
       ELSE LET m == CHOOSE i \in lfs : \A j \in lfs : i <= j
            IN IF m > 1 /\ text[m - 1] = 13 THEN m - 2 ELSE m - 1

\* C12: the derived name is the rest of the first line after a leading "---",
\* without its surrounding whitespace, and the empty string when the first line
\* does not start with "---"; later lines play no part
C12_NameDerivation ==
    pc \notin {"encode", "name"} =>
        LET n == FirstLineLength(scriptText)
            line == SubSeq(scriptText, 1, n)
        IN IF n >= 3 /\ SubSeq(line, 1, 3) = <<45, 45, 45>>
           THEN \E a \in 3..n, b \in 3..n :
                   /\ a <= b
                   /\ name = SubSeq(line, a + 1, b)
                   /\ \A i \in 4..a : line[i] \in Whitespace
                   /\ \A i \in (b + 1)..n : line[i] \in Whitespace
                   /\ name # <<>> =>
                          name[1] \notin Whitespace /\ name[Len(name)] \notin Whitespace
           ELSE name = <<>>

\* the name "a b" was derived from the line "--- a b " ended by CRLF
C12_Witness ==
    /\ pc = "build"
    /\ scriptText = <<45, 45, 45, 32, 97, 32, 98, 32, 13, 10, 120>>
    /\ name = <<97, 32, 98>>

\* C13: makeUserScriptUf2Blocks on a 16384-byte image yields exactly 64 blocks of
\* 512 bytes; block i has targetAddr 0x101FC000 + 256*i, payloadSize 256, the
\* family flag 0x2000, familyId 0xe48bff56, the three magics, the placeholders
\* blockNo = 0 and numBlocks = 0, and bytes 256*i .. 256*i+255 of the image as
\* its payload
C13_SplitBlocks ==
    pc \in {"parse", "filter", "chunks", "serialize"} =>
        /\ Len(image16k) = 16384
        /\ Len(scriptBlocks512) = 64
        /\ \A i \in 0..63 :
              LET b == scriptBlocks512[i + 1]
              IN /\ Len(b) = 512
                 /\ getUint32(b, 0) = <<\h0A32, \h4655>>
                 /\ getUint32(b, 4) = <<\h9E5D, \h5157>>
                 /\ getUint32(b, 8) = <<0, \h2000>>
                 /\ getUint32(b, 12) = ToU32(\h101FC000 + 256 * i)
                 /\ getUint32(b, 16) = <<0, 256>>
                 /\ getUint32(b, 20) = <<0, 0>>
                 /\ getUint32(b, 24) = <<0, 0>>
                 /\ getUint32(b, 28) = <<\hE48B, \hFF56>>
                 /\ getUint32(b, 508) = <<\h0AB1, \h6F30>>
                 /\ SubSeq(b, 33, 288) = SubSeq(image16k, 256 * i + 1, 256 * i + 256)

\* the image of the largest script was split, and the last block targets the
\* last 256 bytes of the region
C13_Witness ==
    /\ pc = "parse"
    /\ Len(scriptUtf8) = 16348
    /\ Len(scriptBlocks512) = 64
    /\ getUint32(scriptBlocks512[64], 12) = <<\h101F, \hFF00>>
    /\ scriptBlocks512[64][288] = 120

\* the end-to-end scenario: 128 valid base blocks, none inside the user region,
\* and the script "---demo\nprint(1)\n"
Scenario ==
    /\ Len(basePages) = 128
    /\ scriptText = <<45, 45, 45, 100, 101, 109, 111, 10,
                      112, 114, 105, 110, 116, 40, 49, 41, 10>>
    /\ Len(baseUf2Bytes) = 128 * 512
    /\ \A k \in 0..127 :
          /\ Field(baseUf2Bytes, k, 0) = <<\h0A32, \h4655>>
          /\ Field(baseUf2Bytes, k, 4) = <<\h9E5D, \h5157>>
          /\ Field(baseUf2Bytes, k, 508) = <<\h0AB1, \h6F30>>
          /\ U32Le(Field(baseUf2Bytes, k, 16), <<0, 476>>)
          /\ ~InRegion(Field(baseUf2Bytes, k, 12))

\* what the scenario yields, for a given value of the length field
ScenarioOutcome(length) ==
    Scenario =>
        /\ pc # "failed"
        /\ BuildRan =>
              /\ SubSeq(image16k, 5, 9) = <<100, 101, 109, 111, 0>>
              /\ \A i \in 10..36 : image16k[i] = 255
              /\ image16k[1] % 16 = 10
              /\ image16k[3] + 256 * image16k[4] = length
        /\ pc = "done" =>
              /\ Len(out) = 192 * 512
              /\ NumberingOk(out)
              /\ NoDuplicateAddr(out)
              /\ RegionRunOk(out)
              /\ RegionFamilyOk(out)

\* C14, as stated: injecting "---demo\nprint(1)\n" into a base of 128 valid
\* blocks outside the region gives a region image whose name field is "demo",
\* NUL, then 0xFF, whose low nibble is the presence magic and whose length field
\* is 18, and an output of 192 blocks numbered 0..191 that passes validation
C14_EndToEnd18 == ScenarioOutcome(18)

\* C14, with the length the script has: the same, the length field being 17, the
\* number of bytes of "---demo\nprint(1)\n"
C14_EndToEnd == ScenarioOutcome(17)

\* the scenario ran to its end
C14_Witness ==
    /\ pc = "done"
    /\ Scenario
    /\ Slices(out) = 192
    /\ Field(out, 191, 20) = ToU32(191)

\* the last address a block writes: targetAddr + payloadSize - 1, for a
\* payloadSize of 1..476
LastAddr(addr, size) ==
    LET lo == addr[2] + size - 1
    IN <<(addr[1] + lo \div 65536) % 65536, lo % 65536>>

\* a block of a buffer writes into the user region
WritesIntoRegion(buf, k) ==
    LET addr == Field(buf, k, 12)
        size == Field(buf, k, 16)[2]
    IN /\ size >= 1
       /\ U32Le(addr, <<\h101F, \hFFFF>>)
       /\ U32Le(<<\h101F, \hC000>>, LastAddr(addr, size))

\* C15: no base block that survives the merge writes into the user region: for
\* every base block of the returned image the interval
\* [targetAddr, targetAddr + payloadSize - 1] is disjoint from
\* [0x101FC000, 0x101FFFFF]
C15_NoOverlap ==
    pc = "done" =>
        \A k \in 0..(Len(baseBlocks512) - 1) : ~WritesIntoRegion(out, k)

\* C16: serializeAndRenumber fails with the error EmptyMerge when it is given no
\* block at all: it returns only when it was given at least one block, and never
\* returns an empty buffer as a success
C16_EmptyMergeFails ==
    pc = "serializeAndRenumber returned" =>
        /\ Len(baseBlocks512) > 0
        /\ Len(out) > 0

\* makeUserScriptUf2Blocks, called on its own, has returned or thrown
SplitCallRan ==
    pc \in {"makeUserScriptUf2Blocks returned", "makeUserScriptUf2Blocks threw"}

\* every block made carries payloadSize 256 and exactly the 256 bytes of its
\* slice of the image: no short and no padded payload
PayloadsWhole ==
    \A i \in 1..Len(scriptBlocks512) :
        /\ getUint32(scriptBlocks512[i], 16) = <<0, 256>>
        /\ 256 * i <= Len(image16k)
        /\ SubSeq(scriptBlocks512[i], 33, 288)
             = SubSeq(image16k, 256 * (i - 1) + 1, 256 * i)

\* C17, as stated: the split fails with RegionSizeMismatch for every image whose
\* length is not a multiple of 256, makes one block per 256-byte slice for every
\* image whose length is such a multiple, and never emits a short or padded
\* payload
C17_SplitByMultiple ==
    SplitCallRan =>
        /\ Len(image16k) % 256 # 0 =>
              pc = "makeUserScriptUf2Blocks threw" /\ err.kind = "expected 16KB image"
        /\ Len(image16k) % 256 = 0 =>
              /\ pc = "makeUserScriptUf2Blocks returned"
              /\ Len(scriptBlocks512) = Len(image16k) \div 256
        /\ PayloadsWhole

\* C17, as the code has it: the split fails with RegionSizeMismatch for every
\* image whose length is not 16384, whether a multiple of 256 or not, makes 64
\* blocks for an image of 16384 bytes, and never emits a short or padded payload
C17_SplitExact ==
    SplitCallRan =>
        /\ Len(image16k) # 16384 =>
              /\ pc = "makeUserScriptUf2Blocks threw"
              /\ err.kind = "expected 16KB image"
              /\ scriptBlocks512 = <<>>
        /\ Len(image16k) = 16384 =>
              /\ pc = "makeUserScriptUf2Blocks returned"
              /\ err.kind = "none"
              /\ Len(scriptBlocks512) = 64
        /\ PayloadsWhole

\* the split was called with an image of two 256-byte slices, and threw
C17_Witness ==
    /\ pc = "makeUserScriptUf2Blocks threw"
    /\ Len(image16k) = 512
    /\ err.kind = "expected 16KB image"

\* a container is valid: magics, payloadSize at most 476, a payload of
\* payloadSize bytes, numBlocks the length of the container and blockNo the
\* position of the block
ValidContainer(c) ==
    \A i \in 1..Len(c) :
        /\ c[i].magicStart0 = <<\h0A32, \h4655>>
        /\ c[i].magicStart1 = <<\h9E5D, \h5157>>
        /\ U32Le(c[i].payloadSize, <<0, 476>>)
        /\ Len(c[i].payload) = c[i].payloadSize[2]
        /\ c[i].numBlocks = ToU32(Len(c))
        /\ c[i].blockNo = ToU32(i - 1)

CheckA(c) ==
    \A i \in 1..Len(c) : c[i].numBlocks = ToU32(Len(c)) /\ c[i].blockNo = ToU32(i - 1)

CheckB(c) == Cardinality({c[i].targetAddr : i \in 1..Len(c)}) = Len(c)

CheckC(c) ==
    LET region == {i \in 1..Len(c) : InRegion(c[i].targetAddr)}
    IN /\ Cardinality(region) = 64
       /\ \A k \in 0..63 :
             \E i \in region : c[i].targetAddr = ToU32(\h101FC000 + 256 * k)

CheckD(c) ==
    \A i \in 1..Len(c) :
        InRegion(c[i].targetAddr) =>
            /\ BitAnd(c[i].flags[2], \h2000, 16) = \h2000
            /\ c[i].familyId = <<\hE48B, \hFF56>>

\* C19: validate returns Ok exactly when the checks (a) numbering, (b) no
\* duplicate targetAddr, (c) 64 region blocks at regionStart + 256*k and (d)
\* family flag and id on the region blocks all hold; when several fail, the
\* error is that of the first failing check in the order (a), (b), (c), (d)
C19_ValidateVerdict ==
    pc = "validate returned" =>
        LET c == baseBlocks
        IN /\ err.kind = "none" <=> CheckA(c) /\ CheckB(c) /\ CheckC(c) /\ CheckD(c)
           /\ ~CheckA(c) => err.kind = "non-contiguous numbering"
           /\ CheckA(c) /\ ~CheckB(c) => err.kind = "duplicate address"
           /\ CheckA(c) /\ CheckB(c) /\ ~CheckC(c) =>
                  err.kind = "wrong region block count/stride"
           /\ CheckA(c) /\ CheckB(c) /\ CheckC(c) /\ ~CheckD(c) =>
                  err.kind = "missing family flag"

\* validate returned the region error for a container whose region blocks fail
\* both the run check and the family check
C19_Witness ==
    /\ pc = "validate returned"
    /\ CheckA(baseBlocks) /\ CheckB(baseBlocks)
    /\ ~CheckC(baseBlocks) /\ ~CheckD(baseBlocks)
    /\ err.kind = "wrong region block count/stride"

\* the positions of the blocks of a container that target no address of the
\* user region, in ascending order
OutsidePositions(c) ==
    LET outside == {i \in 1..Len(c) : ~InRegion(c[i].targetAddr)}
    IN [j \in 1..Cardinality(outside) |->
           CHOOSE i \in outside : Cardinality({h \in outside : h < i}) = j - 1]

\* C22: filterOutUserRegion returns the blocks that survive as they were, blockNo
\* and numBlocks included, in their original order; for an empty container it
\* returns an empty container and throws nothing; applied to its own result it
\* returns that result
C22_FilterFrame ==
    /\ pc = "filterOutUserRegion returned" =>
          LET at == OutsidePositions(parsed)
          IN /\ err.kind = "none"
             /\ Len(baseBlocks) = Len(at)
             /\ \A j \in 1..Len(at) : baseBlocks[j] = parsed[at[j]]
             /\ parsed = <<>> => baseBlocks = <<>>
    /\ pc = "filterOutUserRegion returned again" =>
          err.kind = "none" /\ baseBlocks = parsed

\* a container of two blocks with stale numbers, the first inside the region, was
\* filtered twice: the second block is what is left, with its numbers
C22_Witness ==
    /\ pc = "filterOutUserRegion returned again"
    /\ Len(baseBlocks) = 1
    /\ baseBlocks[1].blockNo = <<\hFFFF, \hFFFF>>
    /\ baseBlocks[1].targetAddr = <<\h101F, \hBFFF>>

\* two 512-byte blocks agree everywhere but in bytes 20..27
SameButNumbering(a, b) ==
    /\ Len(a) = 512 /\ Len(b) = 512
    /\ SubSeq(a, 1, 20) = SubSeq(b, 1, 20)
    /\ SubSeq(a, 29, 512) = SubSeq(b, 29, 512)

\* the k-th 512-byte slice (from 0) of a buffer
SliceOf(buf, k) == SubSeq(buf, 512 * k + 1, 512 * k + 512)

\* the order of the output, for given buffers and the set of the base slices
\* (from 0) inside the region: a kept slice k is found after the kept slices
\* before it
OutputOrdered(base, output, stale) ==
    LET nb == Slices(base) - Cardinality(stale)
    IN /\ Slices(output) = nb + 64
       /\ \A k \in 0..(Slices(base) - 1) :
             k \notin stale =>
                 SameButNumbering(
                     SliceOf(output, k - Cardinality({h \in stale : h < k})),
                     SliceOf(base, k))
       /\ \A i \in 0..63 :
             Field(output, nb + i, 12) = ToU32(\h101FC000 + 256 * i)

\* C23: in the returned image the surviving base blocks come first, in their
\* original order, then the 64 script blocks in ascending address order; each
\* surviving base block equals its 512-byte slice of the input in every byte but
\* those of blockNo and numBlocks (bytes 20..27)
C23_OutputOrder ==
    pc = "done" => OutputOrdered(baseUf2Bytes, out, StaleSlices)

\* an image was returned for a base image whose first slice was inside the region
\* and whose second slice, with stale numbers, was kept as block 0
C23_Witness ==
    /\ pc = "done"
    /\ Slices(baseUf2Bytes) = 2
    /\ StaleSlices = {0}
    /\ Slices(out) = 65
    /\ Field(baseUf2Bytes, 1, 20) # Field(out, 0, 20)
    /\ Field(baseUf2Bytes, 1, 12) = Field(out, 0, 12)

\* the payload of a 512-byte block: payloadSize bytes from offset 32
PayloadOf(block) == SubSeq(block, 33, 32 + getUint32(block, 16)[2])

\* C24: the payloads of the 64 blocks makeUserScriptUf2Blocks returns, put
\* together in ascending targetAddr order, are the 16384-byte image byte for
\* byte: the byte for the address 0x101FC000 + k is image[k]
C24_SplitLossless ==
    pc = "parse" =>
        /\ \A i \in 1..(Len(scriptBlocks512) - 1) :
              U32Lt(getUint32(scriptBlocks512[i], 12),
                    getUint32(scriptBlocks512[i + 1], 12))
        /\ \A i \in 1..Len(scriptBlocks512) :
              LET at == U32ToInt(getUint32(scriptBlocks512[i], 12)) - \h101FC000
              IN PayloadOf(scriptBlocks512[i])
                   = SubSeq(image16k, at + 1, at + Len(PayloadOf(scriptBlocks512[i])))
        /\ Concat([i \in 1..Len(scriptBlocks512) |-> PayloadOf(scriptBlocks512[i])])
             = image16k

\* the image of a script with multi-byte characters was split and the payloads
\* give back its 16384 bytes
C24_Witness ==
    /\ pc = "parse"
    /\ Len(image16k) = 16384
    /\ image16k[37] = \hC3
    /\ Len(scriptBlocks512) = 64
    /\ PayloadOf(scriptBlocks512[1])[37] = \hC3

-----------------------------------------------------------------------------
(* Two invocations of injectScriptIntoBaseUf2 side by side.                 *)
(*                                                                         *)
(* The function keeps no state outside its locals: the only object two      *)
(* invocations can both reach is an ArrayBuffer their callers passed in.    *)
(* buffers holds those caller buffers, as 512-byte pages; an invocation      *)
(* refers to its base image by the index of the buffer.  A Uint8Array made   *)
(* during an invocation is a record: buffer = 0 when it owns its storage    *)
(* (bytes holds the contents), or buffer = id and page = j when it is a      *)
(* view of page j of buffers[id].                                           *)

\* what a view onto the caller's buffer would be: baseUf2Bytes.subarray(i, i + 512)
subarray(id, j, bytes) == [buffer |-> id, page |-> j, bytes |-> <<>>]

\* baseUf2Bytes.slice(i, i + 512): a copy, over storage of its own
slice(id, j, bytes) == [buffer |-> 0, page |-> 0, bytes |-> bytes]

\* the bytes seen through a Uint8Array
BytesOf(bufs, arr) ==
    IF arr.buffer = 0 THEN arr.bytes ELSE bufs[arr.buffer][arr.page]

\* the caller buffers after dv.setUint32(20, ...) and dv.setUint32(24, ...)
\* have written through each of the chunks; written[j] is chunk j afterwards
RECURSIVE WrittenThrough(_, _, _, _)
WrittenThrough(bufs, chunks, written, j) ==
    IF j > Len(chunks) THEN bufs
    ELSE LET arr == chunks[j]
             next == IF arr.buffer = 0 THEN bufs
                     ELSE [bufs EXCEPT ![arr.buffer][arr.page] = written[j]]
         IN WrittenThrough(next, chunks, written, j + 1)

\* injectScriptIntoBaseUf2(baseUf2Bytes, scriptText) run on its own: the
\* thrown error, or the returned bytes
injectScriptIntoBaseUf2(bytes, text) ==
    LET built == buildUserFlashImage(Utf8Encode(text), deriveScriptName(text),
                                     DEFAULT_VERSION_WORD)
        split == makeUserScriptUf2Blocks(built.image)
        base == parseUf2(bytes)
    IN IF built.err.kind # "none" THEN [err |-> built.err, out |-> <<>>]
       ELSE IF split.err.kind # "none" THEN [err |-> split.err, out |-> <<>>]
       ELSE IF base.err.kind # "none" THEN [err |-> base.err, out |-> <<>>]
       ELSE [err |-> NoError,
             out |-> serializeAndRenumber(BaseChunks(bytes) \o split.blocks)]

\* the pages of baseUf2Bytes the chunks of BaseChunks were cut from
ChunkPages(bytes) ==
    LET n == (Len(bytes) + UF2_BLOCK_SIZE - 1) \div UF2_BLOCK_SIZE
    IN KeepPositions([i \in 1..n |-> i],
                     {i \in 1..n : ~inUserRange(getUint32(
                         Slice(bytes, UF2_BLOCK_SIZE * (i - 1), UF2_BLOCK_SIZE * i), 12))},
                     1)

\* the buffers the two callers hold: a stale slice, a slice below and a slice
\* above the region; and a slice above the region before one with a bad magic
PairBuffers ==
    << Pages(MakeBlock([GoodBlock EXCEPT !.targetAddr = <<\h101F, \hC000>>,
                                         !.fill = 40])
             \o MakeBlock(GoodBlock)
             \o MakeBlock([GoodBlock EXCEPT !.targetAddr = <<\h1020, \h0000>>,
                                            !.fill = 99])),
       Pages(MakeBlock([GoodBlock EXCEPT !.targetAddr = <<\h1020, \h0000>>,
                                         !.fill = 99])
             \o MakeBlock([GoodBlock EXCEPT !.magicEnd = U32Zero])) >>

\* the scripts of the two invocations: the demo script and "x"
PairScripts == {DemoScript, <<120>>}

\* the locals of an invocation that has not started; image16k and the
\* returned buffer are held as 512-byte pages
FreshCall(base, text) ==
    [pc |-> "encode", base |-> base, scriptText |-> text, scriptUtf8 |-> <<>>,
     name |-> <<>>, image16k |-> <<>>, scriptBlocks512 |-> <<>>, parsed |-> <<>>,
     baseBlocks |-> <<>>, baseBlocks512 |-> <<>>, outPages |-> <<>>,
     err |-> NoError]

\* no single invocation is running
Uf2Idle ==
    /\ pc = "interleaved"
    /\ basePages = <<>>
    /\ scriptText = <<>>
    /\ scriptUtf8 = <<>>
    /\ name = <<>>
    /\ image16k = <<>>
    /\ scriptBlocks512 = <<>>
    /\ parsed = <<>>
    /\ baseBlocks = <<>>
    /\ baseBlocks512 = <<>>
    /\ outPages = <<>>
    /\ err = NoError

\* two callers, each with a buffer (possibly the same one) and a script
InitPair ==
    /\ Uf2Idle
    /\ ConnNew
    /\ AppNew
    /\ buffers = PairBuffers
    /\ \E b1 \in 1..Len(PairBuffers), b2 \in 1..Len(PairBuffers) :
       \E t1 \in PairScripts, t2 \in PairScripts :
          calls = <<FreshCall(b1, t1), FreshCall(b2, t2)>>

\* const scriptUtf8 = new TextEncoder().encode(scriptText)
PairEncode(k) ==
    /\ calls[k].pc = "encode"
    /\ calls' = [calls EXCEPT ![k].scriptUtf8 = Utf8Encode(calls[k].scriptText),
                              ![k].pc = "name"]
    /\ UNCHANGED <<buffers, notPairVars>>

\* const name = deriveScriptName(scriptText)
PairDeriveName(k) ==
    /\ calls[k].pc = "name"
    /\ calls' = [calls EXCEPT ![k].name = deriveScriptName(calls[k].scriptText),
                              ![k].pc = "build"]
    /\ UNCHANGED <<buffers, notPairVars>>

\* const image16k = buildUserFlashImage(scriptUtf8, name)
PairBuild(k) ==
    /\ calls[k].pc = "build"
    /\ LET r == buildUserFlashImage(calls[k].scriptUtf8, calls[k].name,
                                    DEFAULT_VERSION_WORD)
       IN calls' = [calls EXCEPT ![k].err = r.err,
                                 ![k].image16k = Pages(r.image),
                                 ![k].pc = IF r.err.kind # "none" THEN "failed"
                                           ELSE "split"]
    /\ UNCHANGED <<buffers, notPairVars>>

\* const scriptBlocks512 = makeUserScriptUf2Blocks(image16k)
PairSplit(k) ==
    /\ calls[k].pc = "split"
    /\ \E image \in {Concat(calls[k].image16k)} :
       LET r == makeUserScriptUf2Blocks(image)
       IN calls' = [calls EXCEPT ![k].err = r.err,
                                 ![k].scriptBlocks512 = r.blocks,
                                 ![k].pc = IF r.err.kind # "none" THEN "failed"
                                           ELSE "parse"]
    /\ UNCHANGED <<buffers, notPairVars>>

\* parseUf2(baseUf2Bytes), reading the caller's buffer as it is now
PairParse(k) ==
    /\ calls[k].pc = "parse"
    /\ \E bytes \in {Concat(buffers[calls[k].base])} :
          LET r == parseUf2(bytes)
          IN calls' = [calls EXCEPT ![k].err = r.err,
                                    ![k].parsed = r.blocks,
                                    ![k].pc = IF r.err.kind # "none" THEN "failed"
                                              ELSE "filter"]
    /\ UNCHANGED <<buffers, notPairVars>>

\* const baseBlocks = filterOutUserRegion(...)
PairFilter(k) ==
    /\ calls[k].pc = "filter"
    /\ calls' = [calls EXCEPT ![k].baseBlocks = filterOutUserRegion(calls[k].parsed),
                              ![k].pc = "chunks"]
    /\ UNCHANGED <<buffers, notPairVars>>

\* the loop that fills baseBlocks512, reading the caller's buffer as it is now
PairChunks(k) ==
    /\ calls[k].pc = "chunks"
    /\ \E bytes \in {Concat(buffers[calls[k].base])} :
          LET chunks == BaseChunks(bytes)
              pages == ChunkPages(bytes)
          IN calls' = [calls EXCEPT
                 ![k].baseBlocks512 =
                     [j \in 1..Len(chunks) |->
                         slice(calls[k].base, pages[j], chunks[j])],
                 ![k].pc = "serialize"]
    /\ UNCHANGED <<buffers, notPairVars>>

\* return serializeAndRenumber([...baseBlocks512, ...scriptBlocks512]): every
\* block is renumbered through a DataView over its own storage, then copied
PairSerialize(k) ==
    /\ calls[k].pc = "serialize"
    /\ LET chunks == calls[k].baseBlocks512
           n == Len(chunks)
           all == [j \in 1..n |-> BytesOf(buffers, chunks[j])]
                  \o calls[k].scriptBlocks512
           written == Renumbered(all)
       IN /\ buffers' = WrittenThrough(buffers, chunks, written, 1)
          /\ calls' = [calls EXCEPT
                 ![k].outPages = Pages(Concat(written)),
                 ![k].baseBlocks512 =
                     [j \in 1..n |-> IF chunks[j].buffer = 0
                                     THEN [chunks[j] EXCEPT !.bytes = written[j]]
                                     ELSE chunks[j]],
                 ![k].scriptBlocks512 = SubSeq(written, n + 1, Len(written)),
                 ![k].pc = "done"]
    /\ UNCHANGED notPairVars

\* one step of one of the two invocations
PairStep(k) ==
    \/ PairEncode(k)
    \/ PairDeriveName(k)
    \/ PairBuild(k)
    \/ PairSplit(k)
    \/ PairParse(k)
    \/ PairFilter(k)
    \/ PairChunks(k)
    \/ PairSerialize(k)

NextPair == \E k \in 1..2 : PairStep(k)

SpecPair == InitPair /\ [][NextPair]_vars

\* what invocation k returns or throws when nothing else runs
Alone(k) ==
    injectScriptIntoBaseUf2(Concat(PairBuffers[calls[k].base]), calls[k].scriptText)

\* C21: whatever the order in which the steps of two invocations are taken,
\* a finished invocation has thrown or returned what it throws or returns
\* when run on its own, and the callers' buffers hold what they held at the
\* start.
C21_Interleaved ==
    /\ buffers = PairBuffers
    /\ \A k \in 1..2 :
          /\ calls[k].pc = "failed" =>
                 /\ Alone(k).err.kind # "none"
                 /\ calls[k].err = Alone(k).err
          /\ calls[k].pc = "done" =>
                 /\ Alone(k).err.kind = "none"
                 /\ Concat(calls[k].outPages) = Alone(k).out

\* both invocations finished on the same caller buffer, one of them having
\* returned a container
C21_Witness ==
    /\ calls # <<>>
    /\ calls[1].base = calls[2].base
    /\ calls[1].pc = "done"
    /\ calls[2].pc = "done"
    /\ Len(calls[1].baseBlocks512) = 2
    /\ calls[1].scriptText # calls[2].scriptText

-----------------------------------------------------------------------------
(* CrowConnection: connect, startReading, disconnect.                       *)
(*                                                                         *)
(* A JS string is the sequence of its characters.  The code between two      *)
(* awaits runs without interruption, so each action is one such stretch:     *)
(* connect() up to its return, one turn of the read loop, the catch block    *)
(* of startReading, and the two halves of disconnect() (before and after     *)
(* the cancelled read has let the loop end).                                *)

\* most successful connect() calls
MaxConnects == 2

\* longest text the device sends on one connection
MaxStreamLen == 3

\* the characters the device sends
StreamChars == {"a", "b", "\n"}

\* the texts the device may send on one connection
StreamTexts == SeqsUpTo(StreamChars, MaxStreamLen)

\* this.lineBuffer.indexOf('\n'), counted from 1; 0 for JS -1
IndexOf(s, c) ==
    IF \E i \in 1..Len(s) : s[i] = c
    THEN CHOOSE i \in 1..Len(s) : s[i] = c /\ \A j \in 1..(i - 1) : s[j] # c
    ELSE 0

\* the inner while loop of startReading: the lines handed to onDataReceived,
\* after those already in lines, and what stays in lineBuffer
RECURSIVE ProcessLines(_, _)
ProcessLines(buf, lines) ==
    LET newlineIndex == IndexOf(buf, "\n")
        line == SubSeq(buf, 1, newlineIndex - 1)
        rest == SubSeq(buf, newlineIndex + 1, Len(buf))
    IN IF newlineIndex = 0 THEN [lineBuffer |-> buf, lines |-> lines]
       ELSE ProcessLines(rest, IF line # <<>> THEN Append(lines, line) ELSE lines)

\* connect() when requestPort and open succeed; the device will send text
Connect ==
    /\ ~isConnected
    /\ closing = "none"
    /\ connects < MaxConnects
    /\ port' = "port"
    /\ isConnected' = TRUE
    /\ reader' = "reader"
    /\ writer' = "writer"
    /\ readLoop' = "awaiting read"
    /\ connects' = connects + 1
    /\ incoming' \in StreamTexts
    /\ streamText' = <<>>
    /\ delivered' = <<>>
    /\ UNCHANGED <<lineBuffer, closing>>
    /\ UNCHANGED notConnVars

\* connect() when requestPort rejects (opened = FALSE: this.port is not
\* assigned) or open rejects (this.port is assigned): the catch returns false
ConnectFails ==
    /\ ~isConnected
    /\ closing = "none"
    /\ \E requested \in BOOLEAN : port' = IF requested THEN "port" ELSE port
    /\ UNCHANGED <<reader, writer, isConnected, lineBuffer, readLoop, closing,
                   connects, incoming, streamText, delivered>>
    /\ UNCHANGED notConnVars

\* one turn of the loop of startReading: read() resolves with a chunk
ReadChunk ==
    /\ readLoop = "awaiting read"
    /\ isConnected
    /\ \E n \in 1..Len(incoming) :
          LET value == SubSeq(incoming, 1, n)
              r == ProcessLines(lineBuffer \o value, <<>>)
          IN /\ lineBuffer' = r.lineBuffer
             /\ delivered' = delivered \o r.lines
             /\ streamText' = streamText \o value
             /\ incoming' = SubSeq(incoming, n + 1, Len(incoming))
    /\ UNCHANGED <<port, reader, writer, isConnected, readLoop, closing, connects>>
    /\ UNCHANGED notConnVars

\* read() rejects while connected: the catch block of startReading
ReadError ==
    /\ readLoop = "awaiting read"
    /\ isConnected
    /\ isConnected' = FALSE
    /\ reader' = "null"
    /\ writer' = "null"
    /\ lineBuffer' = <<>>
    /\ port' = "null"
    /\ readLoop' = "none"
    /\ UNCHANGED <<closing, connects, incoming, streamText, delivered>>
    /\ UNCHANGED notConnVars

\* disconnect() up to its first await: reader.cancel() has been called
DisconnectBegin ==
    /\ isConnected
    /\ closing = "none"
    /\ isConnected' = FALSE
    /\ closing' = "awaiting"
    /\ UNCHANGED <<port, reader, writer, lineBuffer, readLoop, connects, incoming,
                   streamText, delivered>>
    /\ UNCHANGED notConnVars

\* the cancelled read() resolves with done: the loop of startReading breaks
ReadDone ==
    /\ readLoop = "awaiting read"
    /\ closing = "awaiting"
    /\ readLoop' = "none"
    /\ UNCHANGED <<port, reader, writer, isConnected, lineBuffer, closing, connects,
                   incoming, streamText, delivered>>
    /\ UNCHANGED notConnVars

\* disconnect() after its awaits: the fields are set to null
DisconnectEnd ==
    /\ closing = "awaiting"
    /\ readLoop = "none"
    /\ port' = "null"
    /\ reader' = "null"
    /\ writer' = "null"
    /\ closing' = "none"
    /\ UNCHANGED <<isConnected, lineBuffer, readLoop, connects, incoming,
                   streamText, delivered>>
    /\ UNCHANGED notConnVars

InitConn ==
    /\ Uf2Idle
    /\ PairIdle
    /\ ConnNew
    /\ AppNew

NextConn ==
    \/ Connect
    \/ ConnectFails
    \/ ReadChunk
    \/ ReadError
    \/ DisconnectBegin
    \/ ReadDone
    \/ DisconnectEnd

SpecConn == InitConn /\ [][NextConn]_vars

\* the non-empty segments of text that end with '\n', in order
RECURSIVE Segments(_)
Segments(text) ==
    LET i == IndexOf(text, "\n")
    IN IF i = 0 THEN <<>>
       ELSE (IF i = 1 THEN <<>> ELSE <<SubSeq(text, 1, i - 1)>>)
            \o Segments(SubSeq(text, i + 1, Len(text)))

\* the text after the last '\n'
RECURSIVE Unterminated(_)
Unterminated(text) ==
    IF text = <<>> \/ text[Len(text)] = "\n" THEN <<>>
    ELSE Append(Unterminated(SubSeq(text, 1, Len(text) - 1)), text[Len(text)])

\* C28: however the text of a connection is cut into chunks, the lines handed
\* to onDataReceived are the non-empty '\n'-terminated segments of the text
\* read so far, in order and once each, and lineBuffer holds the text after
\* the last '\n'.
C28_ChunkIndependent ==
    isConnected =>
        /\ delivered = Segments(streamText)
        /\ lineBuffer = Unterminated(streamText)

\* a step in which a connection ends: disconnect() returns, or the catch
\* block of startReading has run
ConnectionEnds ==
    \/ closing = "awaiting" /\ closing' = "none"
    \/ isConnected /\ ~isConnected' /\ closing' = "none"

\* C29: when a connection ends, lineBuffer is empty, isConnected is false and
\* port, reader and writer are null.
C29_EndsClean ==
    [][ConnectionEnds =>
          /\ lineBuffer' = <<>>
          /\ ~isConnected'
          /\ port' = "null" /\ reader' = "null" /\ writer' = "null"]_vars

-----------------------------------------------------------------------------
(* DruidApp: the async functions that write to crow.                        *)
(*                                                                         *)
(* A call of uploadScript, runScript, uploadFileFromDrop, sendToCrow,       *)
(* sendReplCommand or of the Enter branch of handleReplInput is a frame:    *)
(* text is the script, file text or command it was called for, plan is     *)
(* the sequence of strings it passes to writeLine when nothing fails, pos   *)
(* is how many of them have been written, state is "awaiting" while the     *)
(* call is suspended in an await, "returned" after its last statement and   *)
(* "caught" after its catch block.  JS runs the code between two awaits     *)
(* without interruption: an action is one such stretch.  wire records       *)
(* every string writer.write() accepted, with the frame that wrote it.      *)

\* most calls of the async functions
MaxCalls == 2

Newline == <<"\n">>

\* the two characters '\' and 'n'
BackslashN == <<"\\", "n">>

StartCmd == <<"^", "^", "s">>

WriteCmd == <<"^", "^", "w">>

ExecCmd == <<"^", "^", "e">>

\* 'crow.reset()'
ResetCmd == <<"c", "r", "o", "w", ".", "r", "e", "s", "e", "t", "(", ")">>

\* the grave accent, which a TLA+ string cannot hold
Grave == "grave"

\* the three grave accents that open and close a fenced block
Fence == <<Grave, Grave, Grave>>

\* writeLine(line): what is handed to write()
WriteLineData(line) == line \o <<"\r", "\n">>

\* the first position, from 1, at which sep occurs in text; 0 when it does not
Find(text, sep) ==
    LET at == {i \in 1..(Len(text) - Len(sep) + 1) :
                  SubSeq(text, i, i + Len(sep) - 1) = sep}
    IN IF at = {} THEN 0 ELSE CHOOSE i \in at : \A j \in at : i <= j

\* text.split(sep) for a non-empty separator
RECURSIVE SplitOn(_, _)
SplitOn(text, sep) ==
    LET i == Find(text, sep)
    IN IF i = 0 THEN <<text>>
       ELSE <<SubSeq(text, 1, i - 1)>>
            \o SplitOn(SubSeq(text, i + Len(sep), Len(text)), sep)

\* white space as String.prototype.trim sees it, among the characters used
WhitespaceChars == {" ", "\t", "\n", "\r"}

\* text.trim()
RECURSIVE TrimChars(_)
TrimChars(text) ==
    IF text = <<>> THEN text
    ELSE IF text[1] \in WhitespaceChars THEN TrimChars(Tail(text))
    ELSE IF text[Len(text)] \in WhitespaceChars
         THEN TrimChars(SubSeq(text, 1, Len(text) - 1))
    ELSE text

\* String(code).replace(/\r\n/g, '\n').replace(/\r/g, '\n')
RECURSIVE NormalizeNewlines(_)
NormalizeNewlines(text) ==
    IF text = <<>> THEN text
    ELSE IF text[1] = "\r"
         THEN <<"\n">> \o NormalizeNewlines(
                  IF Len(text) > 1 /\ text[2] = "\n" THEN SubSeq(text, 3, Len(text))
                  ELSE Tail(text))
    ELSE <<text[1]>> \o NormalizeNewlines(Tail(text))

\* code.replace(/\n+$/g, '')
RECURSIVE WithoutTrailingNewlines(_)
WithoutTrailingNewlines(text) ==
    IF text # <<>> /\ text[Len(text)] = "\n"
    THEN WithoutTrailingNewlines(SubSeq(text, 1, Len(text) - 1))
    ELSE text

prepareCodeForCrow(code) ==
    LET trimmed == TrimChars(code)
        alreadyFenced ==
            /\ Len(trimmed) >= Len(Fence)
            /\ SubSeq(trimmed, 1, Len(Fence)) = Fence
            /\ SubSeq(trimmed, Len(trimmed) - Len(Fence) + 1, Len(trimmed)) = Fence
        isMultiline == Find(code, Newline) # 0
    IN IF alreadyFenced THEN code
       ELSE IF ~isMultiline THEN code
       ELSE Fence \o Newline \o WithoutTrailingNewlines(code) \o Newline \o Fence

\* uploadScript with the closing command written before the lines
UploadWritesCloseFirst(code) == <<StartCmd, WriteCmd>> \o SplitOn(code, Newline)

\* the writeLine calls of uploadScript for editor content code
UploadWrites(code) == <<StartCmd>> \o SplitOn(code, Newline) \o <<WriteCmd>>

\* the writeLine calls of runScript
RunWrites(code) == <<ResetCmd, StartCmd>> \o SplitOn(code, Newline) \o <<ExecCmd>>

\* the writeLine calls of uploadFileFromDrop for a file with this text
DropWrites(text) == <<StartCmd>> \o SplitOn(text, BackslashN) \o <<WriteCmd>>

\* the writeLine calls of sendToCrow
SendWrites(code) == SplitOn(prepareCodeForCrow(NormalizeNewlines(code)), Newline)

\* the writeLine calls of sendReplCommand and of handleReplInput
ReplWrites(code) == SplitOn(code, Newline)

\* scripts in the editor: '' and 'a\nb'
EditorTexts == {<<>>, <<"a", "\n", "b">>}

\* dropped files: 'a\nb' (two lines) and the four characters a \ n b
FileTexts == {<<"a", "\n", "b">>, <<"a", "\\", "n", "b">>}

\* selections sent from the editor: 'x\r\ny\n'
SelectedTexts == {<<"x", "\r", "\n", "y", "\n">>}

\* what is typed into a REPL input: 'x' and ' y '
ReplTexts == {<<"x">>, <<" ", "y", " ">>}

\* a call that has not yet reached its first await
Frame(fn, text, plan) ==
    [fn |-> fn, text |-> text, plan |-> plan, pos |-> 0, state |-> "awaiting"]

\* the guard of CrowConnection.write
CanWrite == isConnected /\ writer # "null"

\* the frames and the wire after frame i has called writeLine with its next
\* string: write() throws 'Not connected', or writer.write() rejects because
\* the stream has failed, or the string is written
AfterWrite(fs, i) ==
    IF CanWrite /\ writer # "failed writer"
    THEN [frames |-> [fs EXCEPT ![i].pos = fs[i].pos + 1],
          wire |-> Append(wire, [call |-> i,
                                 data |-> WriteLineData(fs[i].plan[fs[i].pos + 1])])]
    ELSE [frames |-> [fs EXCEPT ![i].state = "caught"], wire |-> wire]

\* a call runs up to the await of its first writeLine
Begin(f) ==
    /\ Len(frames) < MaxCalls
    /\ LET r == AfterWrite(Append(frames, f), Len(frames) + 1)
       IN /\ frames' = r.frames
          /\ wire' = r.wire

\* the fields of the REPL
replVars == <<commandHistory, historyIndex, currentInput, replEditorValue,
              replInputValue, replAutocompleteEnabled, presses>>

\* uploadScript() up to its first await
UploadScript ==
    /\ isConnected
    /\ Begin(Frame("uploadScript", editorValue, UploadWrites(editorValue)))
    /\ UNCHANGED <<editorValue, scriptModified, replVars>>
    /\ UNCHANGED <<connVars, notAppVars>>

\* runScript() up to its first await
RunScript ==
    /\ isConnected
    /\ Begin(Frame("runScript", editorValue, RunWrites(editorValue)))
    /\ UNCHANGED <<editorValue, scriptModified, replVars>>
    /\ UNCHANGED <<connVars, notAppVars>>

\* uploadFileFromDrop(file) up to its first await, file.text()
UploadFileFromDrop ==
    /\ isConnected
    /\ Len(frames) < MaxCalls
    /\ \E text \in FileTexts :
          frames' = Append(frames, Frame("uploadFileFromDrop", text, DropWrites(text)))
    /\ UNCHANGED <<editorValue, scriptModified, wire, replVars>>
    /\ UNCHANGED <<connVars, notAppVars>>

\* sendToCrow(code) up to its first await
SendToCrow ==
    /\ isConnected
    /\ \E code \in SelectedTexts : Begin(Frame("sendToCrow", code, SendWrites(code)))
    /\ UNCHANGED <<editorValue, scriptModified, replVars>>
    /\ UNCHANGED <<connVars, notAppVars>>

\* a suspended call resumes and calls writeLine with its next string
ResumeWrite ==
    /\ \E i \in 1..Len(frames) :
          /\ frames[i].state = "awaiting"
          /\ frames[i].pos < Len(frames[i].plan)
          /\ LET r == AfterWrite(frames, i)
             IN /\ frames' = r.frames
                /\ wire' = r.wire
    /\ UNCHANGED <<editorValue, scriptModified, replVars>>
    /\ UNCHANGED <<connVars, notAppVars>>

\* a suspended call resumes after its last delay and runs to its end:
\* uploadScript calls setModified(false), the REPL functions reset the
\* history navigation and empty their input
Return ==
    /\ \E i \in 1..Len(frames) :
          /\ frames[i].state = "awaiting"
          /\ frames[i].pos = Len(frames[i].plan)
          /\ frames' = [frames EXCEPT ![i].state = "returned"]
          /\ scriptModified' = IF frames[i].fn = "uploadScript" THEN FALSE
                               ELSE scriptModified
          /\ IF frames[i].fn = "sendReplCommand"
             THEN /\ historyIndex' = -1
                  /\ currentInput' = <<>>
                  /\ replEditorValue' = <<>>
                  /\ presses' = NoPresses
                  /\ UNCHANGED replInputValue
             ELSE IF frames[i].fn = "handleReplInput"
             THEN /\ historyIndex' = -1
                  /\ currentInput' = <<>>
                  /\ replInputValue' = <<>>
                  /\ presses' = NoPresses
                  /\ UNCHANGED replEditorValue
             ELSE UNCHANGED <<historyIndex, currentInput, replEditorValue,
                              replInputValue, presses>>
    /\ UNCHANGED <<editorValue, wire, commandHistory, replAutocompleteEnabled>>
    /\ UNCHANGED <<connVars, notAppVars>>

\* the stream to the device fails while the port is still held: from now on
\* writer.write() rejects
WriterFails ==
    /\ isConnected
    /\ writer = "writer"
    /\ writer' = "failed writer"
    /\ UNCHANGED <<port, reader, isConnected, lineBuffer, readLoop, closing,
                   connects, incoming, streamText, delivered>>
    /\ UNCHANGED notConnVars

\* the user changes the script: onDidChangeModelContent calls setModified(true)
Edit ==
    /\ \E text \in EditorTexts \ {editorValue} : editorValue' = text
    /\ scriptModified' = TRUE
    /\ UNCHANGED <<frames, wire, replVars>>
    /\ UNCHANGED <<connVars, notAppVars>>

-----------------------------------------------------------------------------
(* DruidApp: the REPL input and its command history.                       *)
(*                                                                         *)
(* The Monaco REPL editor handles keys while replAutocompleteEnabled, the   *)
(* textarea while it is not (toggleReplAutocomplete shows one and hides    *)
(* the other).  presses follows the keys for the sake of the  *)
(* properties: the widget and the text it held when ArrowUp was pressed at  *)
(* historyIndex = -1, and how many ArrowUp and then ArrowDown presses have  *)
(* followed with nothing else in between.                                   *)

\* most entries of commandHistory
MaxHistory == 2

\* longest run of ArrowUp presses that is followed
MaxPresses == 3

\* this.commandHistory[this.commandHistory.length - 1 - index]
HistoryEntry(index) == commandHistory[Len(commandHistory) - index]

\* commandHistory after the push that skips a repeat of the last command
PushHistory(code) ==
    IF Len(commandHistory) = 0 \/ commandHistory[Len(commandHistory)] # code
    THEN Append(commandHistory, code)
    ELSE commandHistory

\* ArrowUp that saves the input on every press
HistoryUpAlwaysSaving(value) ==
    IF Len(commandHistory) = 0
    THEN [historyIndex |-> historyIndex, currentInput |-> currentInput, value |-> value]
    ELSE IF historyIndex < Len(commandHistory) - 1
         THEN [historyIndex |-> historyIndex + 1, currentInput |-> value,
               value |-> HistoryEntry(historyIndex + 1)]
         ELSE [historyIndex |-> historyIndex, currentInput |-> value, value |-> value]

\* ArrowUp: historyIndex, currentInput and the input after the press, for an
\* input that holds value
HistoryUp(value) ==
    LET saved == IF historyIndex = -1 THEN value ELSE currentInput
    IN IF Len(commandHistory) = 0
       THEN [historyIndex |-> historyIndex, currentInput |-> currentInput,
             value |-> value]
       ELSE IF historyIndex < Len(commandHistory) - 1
            THEN [historyIndex |-> historyIndex + 1, currentInput |-> saved,
                  value |-> HistoryEntry(historyIndex + 1)]
            ELSE [historyIndex |-> historyIndex, currentInput |-> saved,
                  value |-> value]

\* ArrowDown: the same three after the press
HistoryDown(value) ==
    IF historyIndex = -1
    THEN [historyIndex |-> historyIndex, currentInput |-> currentInput, value |-> value]
    ELSE [historyIndex |-> historyIndex - 1, currentInput |-> currentInput,
          value |-> IF historyIndex - 1 = -1 THEN currentInput
                    ELSE HistoryEntry(historyIndex - 1)]

\* presses after an ArrowUp in widget w that holds value
PressedUp(w, value) ==
    IF presses.widget = w /\ presses.downs = 0 /\ presses.ups < MaxPresses
    THEN [presses EXCEPT !.ups = presses.ups + 1]
    ELSE IF historyIndex = -1
         THEN [widget |-> w, text |-> value, ups |-> 1, downs |-> 0]
         ELSE NoPresses

\* presses after an ArrowDown in widget w
PressedDown(w) ==
    IF presses.widget = w /\ presses.downs < presses.ups
    THEN [presses EXCEPT !.downs = presses.downs + 1]
    ELSE NoPresses

\* ArrowUp in the Monaco REPL editor: navigateReplHistory('up')
ArrowUpInReplEditor ==
    /\ replAutocompleteEnabled
    /\ LET r == HistoryUp(replEditorValue)
       IN /\ historyIndex' = r.historyIndex
          /\ currentInput' = r.currentInput
          /\ replEditorValue' = r.value
    /\ presses' = PressedUp("replEditor", replEditorValue)
    /\ UNCHANGED <<editorValue, scriptModified, frames, wire, commandHistory,
                   replInputValue, replAutocompleteEnabled>>
    /\ UNCHANGED <<connVars, notAppVars>>

\* ArrowDown in the Monaco REPL editor: navigateReplHistory('down')
ArrowDownInReplEditor ==
    /\ replAutocompleteEnabled
    /\ LET r == HistoryDown(replEditorValue)
       IN /\ historyIndex' = r.historyIndex
          /\ currentInput' = r.currentInput
          /\ replEditorValue' = r.value
    /\ presses' = PressedDown("replEditor")
    /\ UNCHANGED <<editorValue, scriptModified, frames, wire, commandHistory,
                   replInputValue, replAutocompleteEnabled>>
    /\ UNCHANGED <<connVars, notAppVars>>

\* the user changes the text of the Monaco REPL editor: the
\* onDidChangeModelContent listener ends the navigation
TypeInReplEditor ==
    /\ replAutocompleteEnabled
    /\ \E text \in (ReplTexts \cup {<<>>}) \ {replEditorValue} :
          replEditorValue' = text
    /\ historyIndex' = -1
    /\ presses' = NoPresses
    /\ UNCHANGED <<editorValue, scriptModified, frames, wire, commandHistory,
                   currentInput, replInputValue, replAutocompleteEnabled>>
    /\ UNCHANGED <<connVars, notAppVars>>

\* Enter in the Monaco REPL editor with text in it: sendReplCommand(code)
SendReplCommand ==
    /\ replAutocompleteEnabled
    /\ LET code == TrimChars(replEditorValue)
       IN /\ code # <<>>
          /\ Len(PushHistory(code)) <= MaxHistory
          /\ commandHistory' = PushHistory(code)
          /\ IF ~isConnected
             THEN /\ replEditorValue' = <<>>
                  /\ historyIndex' = -1
                  /\ currentInput' = <<>>
                  /\ presses' = NoPresses
                  /\ UNCHANGED <<frames, wire>>
             ELSE /\ Begin(Frame("sendReplCommand", code, ReplWrites(code)))
                  /\ presses' = NoPresses
                  /\ UNCHANGED <<replEditorValue, historyIndex, currentInput>>
    /\ UNCHANGED <<editorValue, scriptModified, replInputValue,
                   replAutocompleteEnabled>>
    /\ UNCHANGED <<connVars, notAppVars>>

\* handleReplInput, ArrowUp in the textarea
ArrowUpInReplInput ==
    /\ ~replAutocompleteEnabled
    /\ LET r == HistoryUp(replInputValue)
       IN /\ historyIndex' = r.historyIndex
          /\ currentInput' = r.currentInput
          /\ replInputValue' = r.value
    /\ presses' = PressedUp("replInput", replInputValue)
    /\ UNCHANGED <<editorValue, scriptModified, frames, wire, commandHistory,
                   replEditorValue, replAutocompleteEnabled>>
    /\ UNCHANGED <<connVars, notAppVars>>

\* handleReplInput, ArrowDown in the textarea
ArrowDownInReplInput ==
    /\ ~replAutocompleteEnabled
    /\ LET r == HistoryDown(replInputValue)
       IN /\ historyIndex' = r.historyIndex
          /\ currentInput' = r.currentInput
          /\ replInputValue' = r.value
    /\ presses' = PressedDown("replInput")
    /\ UNCHANGED <<editorValue, scriptModified, frames, wire, commandHistory,
                   replEditorValue, replAutocompleteEnabled>>
    /\ UNCHANGED <<connVars, notAppVars>>

\* handleReplInput, any other key: the navigation is reset, then the key
\* changes the text of the textarea
TypeInReplInput ==
    /\ ~replAutocompleteEnabled
    /\ \E text \in (ReplTexts \cup {<<>>}) \ {replInputValue} :
          replInputValue' = text
    /\ historyIndex' = -1
    /\ currentInput' = IF historyIndex # -1 THEN <<>> ELSE currentInput
    /\ presses' = NoPresses
    /\ UNCHANGED <<editorValue, scriptModified, frames, wire, commandHistory,
                   replEditorValue, replAutocompleteEnabled>>
    /\ UNCHANGED <<connVars, notAppVars>>

\* handleReplInput, Enter in the textarea with text in it
EnterInReplInput ==
    /\ ~replAutocompleteEnabled
    /\ LET code == TrimChars(replInputValue)
       IN /\ code # <<>>
          /\ Len(PushHistory(code)) <= MaxHistory
          /\ commandHistory' = PushHistory(code)
          /\ IF ~isConnected
             THEN /\ replInputValue' = <<>>
                  /\ historyIndex' = -1
                  /\ currentInput' = <<>>
                  /\ presses' = NoPresses
                  /\ UNCHANGED <<frames, wire>>
             ELSE /\ Begin(Frame("handleReplInput", code, ReplWrites(code)))
                  /\ presses' = NoPresses
                  /\ UNCHANGED <<replInputValue, historyIndex, currentInput>>
    /\ UNCHANGED <<editorValue, scriptModified, replEditorValue,
                   replAutocompleteEnabled>>
    /\ UNCHANGED <<connVars, notAppVars>>

\* the connection as connect() leaves it, nothing to be read
Connected ==
    /\ port = "port"
    /\ reader = "reader"
    /\ writer = "writer"
    /\ isConnected = TRUE
    /\ lineBuffer = <<>>
    /\ readLoop = "awaiting read"
    /\ closing = "none"
    /\ connects = 1
    /\ incoming = <<>>
    /\ streamText = <<>>
    /\ delivered = <<>>

\* crow is connected; a script is in the editor and 'x' in the REPL editor
InitUpload ==
    /\ Uf2Idle
    /\ PairIdle
    /\ Connected
    /\ editorValue \in EditorTexts
    /\ scriptModified \in BOOLEAN
    /\ frames = <<>>
    /\ wire = <<>>
    /\ commandHistory = <<>>
    /\ historyIndex = -1
    /\ currentInput = <<>>
    /\ replEditorValue = <<"x">>
    /\ replInputValue = <<>>
    /\ replAutocompleteEnabled = TRUE
    /\ presses = NoPresses


NextUpload ==
    \/ UploadScript
    \/ RunScript
    \/ UploadFileFromDrop
    \/ SendToCrow
    \/ SendReplCommand
    \/ ResumeWrite
    \/ Return
    \/ Edit
    \/ WriterFails
    \/ ReadError

SpecUpload == InitUpload /\ [][NextUpload]_vars

\* uploadScript alone: its calls and the failures of the port
NextUploadScript ==
    \/ UploadScript
    \/ ResumeWrite
    \/ Return
    \/ WriterFails
    \/ ReadError

\* uploadScript is called on a script with unsaved changes
InitUploadScript == InitUpload /\ scriptModified

SpecUploadScript == InitUploadScript /\ [][NextUploadScript]_vars

\* crow is connected or not; the REPL is as the constructor leaves it, with
\* the Monaco REPL editor or the textarea shown
InitRepl ==
    /\ Uf2Idle
    /\ PairIdle
    /\ Connected \/ ConnNew
    /\ editorValue = <<>>
    /\ scriptModified = FALSE
    /\ frames = <<>>
    /\ wire = <<>>
    /\ commandHistory = <<>>
    /\ historyIndex = -1
    /\ currentInput = <<>>
    /\ replEditorValue = <<>>
    /\ replInputValue = <<>>
    /\ replAutocompleteEnabled \in BOOLEAN
    /\ presses = NoPresses

NextRepl ==
    \/ ArrowUpInReplEditor
    \/ ArrowDownInReplEditor
    \/ TypeInReplEditor
    \/ SendReplCommand
    \/ ArrowUpInReplInput
    \/ ArrowDownInReplInput
    \/ TypeInReplInput
    \/ EnterInReplInput
    \/ Return
    \/ WriterFails
    \/ ReadError

SpecRepl == InitRepl /\ [][NextRepl]_vars

\* the strings frame i has written to the port, in order
Written(i) ==
    LET own == SelectSeq(wire, LAMBDA e : e.call = i)
    IN [k \in 1..Len(own) |-> own[k].data]

\* what an upload of text writes when nothing fails: '^^s', each
\* '\n'-separated line with its '\r\n', then '^^w'
UploadLines(text) ==
    LET lines == <<StartCmd>> \o SplitOn(text, Newline) \o <<WriteCmd>>
    IN [k \in 1..Len(lines) |-> lines[k] \o <<"\r", "\n">>]

IsPrefix(s, t) == Len(s) <= Len(t) /\ s = SubSeq(t, 1, Len(s))

\* frame i is a call of uploadScript that hits its catch block in this step
UploadFails(i) ==
    /\ frames'[i].fn = "uploadScript"
    /\ frames'[i].state = "caught"
    /\ i > Len(frames) \/ frames[i].state = "awaiting"

\* frame i is a call of uploadScript that returns in this step
UploadReturns(i) ==
    /\ i <= Len(frames)
    /\ frames[i].fn = "uploadScript"
    /\ frames[i].state = "awaiting"
    /\ frames'[i].state = "returned"

\* C25: a call of uploadScript writes '^^s', the lines of the editor content
\* in order and '^^w', in this order; the modified flag changes only when
\* such a call returns, after its '^^w' has been written, and is then clear;
\* a call whose write fails writes nothing more, has not written '^^w', and
\* leaves the modified flag as it was.
C25_UploadOrder ==
    /\ [](\A i \in 1..Len(frames) :
             frames[i].fn = "uploadScript" =>
                LET written == Written(i)
                    lines == UploadLines(frames[i].text)
                IN /\ IsPrefix(written, lines)
                   /\ frames[i].state = "returned" => written = lines
                   /\ frames[i].state = "caught" => Len(written) < Len(lines))
    /\ [][/\ \A i \in 1..Len(frames') :
                /\ UploadFails(i) => scriptModified' = scriptModified
                /\ (/\ i <= Len(frames)
                    /\ frames[i].fn = "uploadScript"
                    /\ frames[i].state = "caught") => Written(i)' = Written(i)
          /\ scriptModified' # scriptModified =>
                /\ ~scriptModified'
                /\ \E i \in 1..Len(frames) :
                      /\ UploadReturns(i)
                      /\ Written(i) = UploadLines(frames[i].text)]_vars

\* one call of uploadScript has returned and cleared the flag, another was
\* cut off after '^^s' and a line
C25_Witness ==
    \E i, j \in 1..Len(frames) :
       /\ frames[i].fn = "uploadScript" /\ frames[i].state = "returned"
       /\ Len(Written(i)) = 4
       /\ ~scriptModified
       /\ frames[j].fn = "uploadScript" /\ frames[j].state = "caught"
       /\ Len(Written(j)) >= 2

\* the positions of the wire inside the upload window of frame i: from its
\* '^^s' to its '^^w' or '^^e', or to the end while the call is under way
Window(i) ==
    LET starts == {k \in 1..Len(wire) :
                      wire[k].call = i /\ wire[k].data = WriteLineData(StartCmd)}
        ends == {k \in 1..Len(wire) :
                    /\ wire[k].call = i
                    /\ wire[k].data \in {WriteLineData(WriteCmd), WriteLineData(ExecCmd)}}
    IN IF starts = {} THEN {}
       ELSE IF ends # {}
            THEN {k \in 1..Len(wire) : \E a \in starts, b \in ends : a <= k /\ k <= b}
       ELSE IF frames[i].state = "awaiting"
            THEN {k \in 1..Len(wire) : \E a \in starts : a <= k}
       ELSE {}

\* C26: every string written inside the upload window of a call of
\* uploadScript or runScript was written by that call.
C26_WindowExclusive ==
    \A i \in 1..Len(frames) :
       frames[i].fn \in {"uploadScript", "runScript"} =>
          \A k \in Window(i) : wire[k].call = i

\* C27: a dropped file with text T is written as uploadScript writes editor
\* content T: '^^s', each '\n'-separated line of T by its own writeLine
\* call, '^^w'.
C27_DropLikeUpload ==
    \A i \in 1..Len(frames) :
       (frames[i].fn = "uploadFileFromDrop" /\ frames[i].state = "returned") =>
          Written(i) = UploadLines(frames[i].text)

\* C30: historyIndex stays between -1 and commandHistory.length - 1, so the
\* entry commandHistory[length - 1 - historyIndex] shown during navigation
\* exists; and when ArrowUp was pressed k times from historyIndex = -1 and
\* ArrowDown k times after that, the input holds the text it held before.
C30_HistoryIndex ==
    /\ historyIndex \in -1..(Len(commandHistory) - 1)
    /\ (presses.widget = "replEditor" /\ presses.ups = presses.downs) =>
           replEditorValue = presses.text
    /\ (presses.widget = "replInput" /\ presses.ups = presses.downs) =>
           replInputValue = presses.text

\* two ArrowUp and two ArrowDown presses over a history of two commands have
\* brought back a text that was being typed, after a command failed to be
\* written
C30_Witness ==
    /\ presses.ups = 2
    /\ presses.downs = 2
    /\ presses.text # <<>>
    /\ Len(commandHistory) = 2
    /\ historyIndex = -1
    /\ \E i \in 1..Len(frames) : frames[i].state = "caught"

====
